---- MODULE Spec2Model ----
(***************************************************************************)
(* gobar: the markup parser of parser.go (Tokenize, Scan, TextPiece).      *)
(*                                                                         *)
(* A byte is a one-character string, a line is a sequence of bytes.  A Go  *)
(* uint / uint64 is kept at its width as four 16-bit limbs, most           *)
(* significant first, so that uint(-1) is 2^64-1 and not -1.  A Go slice   *)
(* is a header (arr, len, cap) over a backing array of the heap `arrays`,  *)
(* so that two headers copied from one another share storage as in Go.     *)
(***************************************************************************)
EXTENDS Integers, Sequences, FiniteSets, TLC

\* Bounds of the model: a line is the concatenation of at most MaxItems
\* lexemes of Items, or of at most MaxCoreItems lexemes of CoreItems, or one
\* of the test inputs and example inputs.
MaxItems == 3
MaxCoreItems == 4

----------------------------------------------------------------------------
\* Bytes and lexemes the bounded lines are built from.

Digits == {"0", "1", "2", "3", "4", "5", "6", "7", "8", "9"}
HexLower == {"a", "b", "c", "d", "e", "f"}
HexUpper == {"A", "B", "C", "D", "E", "F"}
HexDigits == Digits \cup HexLower \cup HexUpper

DigitVal(c) ==
    CASE c = "0" -> 0 [] c = "1" -> 1 [] c = "2" -> 2 [] c = "3" -> 3
      [] c = "4" -> 4 [] c = "5" -> 5 [] c = "6" -> 6 [] c = "7" -> 7
      [] c = "8" -> 8 [] c = "9" -> 9
      [] c \in {"a", "A"} -> 10 [] c \in {"b", "B"} -> 11
      [] c \in {"c", "C"} -> 12 [] c \in {"d", "D"} -> 13
      [] c \in {"e", "E"} -> 14 [] c \in {"f", "F"} -> 15
      [] OTHER -> 99

ColorLit == <<"0", "x", "F", "F", "1", "0", "A", "a", "3", "3">>

\* Every lexeme: the directive prefixes, the brackets, escape, comma, number
\* parts, a letter, a color literal and the newline.
Items ==
    { <<"{", "F">>, <<"{", "S">>, <<"{", "C", "F">>, <<"{", "C", "B">>,
      <<"{", "A", "R">>, <<"{">>, <<"}">>, <<"\\">>, <<",">>,
      <<"1">>, <<"-">>, <<"t">>, ColorLit, <<"\n">> }

\* The lexemes of the longer lines: the color directives, the color literal
\* and the newline are left to the shorter lines and to TestLines.
CoreItems ==
    { <<"{", "F">>, <<"{", "S">>, <<"{", "A", "R">>, <<"{">>, <<"}">>,
      <<"\\">>, <<",">>, <<"1">>, <<"-">>, <<"t">> }

RECURSIVE LinesOf(_, _)
LinesOf(n, items) ==
    IF n = 0 THEN {<<>>}
    ELSE LET S == LinesOf(n - 1, items) IN S \cup {l \o it : l \in S, it \in items}

\* The inputs of ScanTests (parser_test.go), byte by byte.
TestLines ==
    {
      <<"t", "e", "s", "t">>,
      <<"{", "F", "1", "t", "e", "s", "t", "}">>,
      <<"{", "C", "F", "0", "x", "F", "F", "0", "0", "A", "A", "3", "3", "t", "e", "s", "t", "}">>,
      <<"{", "C", "B", "0", "x", "3", "3", "A", "A", "0", "0", "F", "F", "t", "e", "s", "t", "}">>,
      <<"{", "A", "R", "t", "e", "s", "t", "}">>,
      <<"{", "A", "R", "t", "e", "s", "t", "1", "{", "F", "1", "t", "e", "s", "t", "2", "}", "}">>,
      <<"{", "A", "R", "{", "F", "1", "t", "e", "s", "t", "1", "}", "t", "e", "s", "t", "2", "}">>,
      <<"{", "S", "1", "t", "e", "s", "t", "}">>,
      <<"{", "S", "1", ",", "2", "t", "e", "s", "t", "}">>,
      <<"{", "F", "1", "t", "e", "s", "t", "1", "}", "t", "e", "s", "t", "2">>,
      <<"t", "e", "s", "t", "1", "{", "F", "1", "t", "e", "s", "t", "2", "}">>,
      <<"t", "e", "s", "t", "1", "{", "F", "1", "t", "e", "s", "t", "2", "}", "t", "e", "s", "t", "3">>,
      <<"{", "F", "1", "t", "e", "s", "t", "1", "}", "{", "F", "2", "t", "e", "s", "t", "2", "}">>,
      <<"{", "F", "1", "t", "e", "s", "t", "1", "}", "t", "e", "s", "t", "2", "{", "F", "2", "t", "e", "s", "t", "3", "}">>,
      <<"{", "F", "1", "{", "F", "2", "t", "e", "s", "t", "1", "}", "}">>,
      <<"{", "F", "1", "t", "e", "s", "t", "1", "{", "F", "2", "t", "e", "s", "t", "2", "}", "}">>,
      <<"{", "F", "1", "{", "F", "2", "t", "e", "s", "t", "1", "}", "t", "e", "s", "t", "2", "}">>,
      <<"{", "F", "1", "t", "e", "s", "t", "1", "{", "F", "2", "t", "e", "s", "t", "2", "}", "t", "e", "s", "t", "3", "}">>,
      <<"{", "S", "1", "t", "e", "s", "t", "1", "}", "{", "F", "1", "{", "S", "1", "t", "e", "s", "t", "2", "}", "t", "e", "s", "t", "3", "}">>,
      <<"}">>,
      <<"\\", "{", "F">>,
      <<"\\", "{", "S">>,
      <<"\\", "{", "C", "F">>,
      <<"\\", "{", "C", "B">>,
      <<"\\", "}">>,
      <<"{", "t", "e", "s", "t", "1", "}">>,
      <<"\\", "{", "t", "e", "s", "t", "1", "}">>,
      <<"\\", "{", "t", "e", "s", "t", "1", "}", "{", "t", "e", "s", "t", "2", "}">>,
      <<"{", "F", "1", "t", "e", "s", "t", "1", "}", "{", "t", "e", "s", "t", "2", "}", "{", "A", "R", "t", "e", "s", "t", "3", "}">>,
      <<"{", "F", "1", "{", "S", "2", "t", "e", "s", "t", "1", "}", "}", "t", "e", "s", "t", "2">>,
      <<"{", "F", "1", "{", "S", "2", "t", "e", "s", "t", "1", "}", "t", "e", "s", "t", "2", "}", "t", "e", "s", "t", "3">>,
      <<"{", "S", "-", "0", "t", "e", "s", "t", "1", "}">>,
      <<"{", "S", "-", "1", "t", "e", "s", "t", "1", "}">>
    }

\* Further inputs, longer than the bounded lines: chained and nested screen
\* lists, a scope inside a bare group, an escaped comma, nested colors, and
\* right-aligned scopes between left-aligned text.
ExampleLines ==
    {
      <<"{", "S", "1", ",", "2", ",", "3", "{", "S", "4", "a", "}", "{", "S", "5", "b", "}", "}">>,
      <<"{", "S", "1", ",", "-", "2", "t", "}">>,
      <<"{", "S", "1", "a", ",", " ", "b", "}">>,
      <<"{", "{", "F", "1", "a", "}", "b", "}">>,
      <<"{", "S", "1", "{", "t", "}", ",", "2", "t", "}">>,
      <<"{", "S", "1", "\\", ",", "2", "t", "}">>,
      <<"{", "S", "1", ",", "2", "{", "F", "3", "a", "}", "b", "}">>,
      <<"{", "S", "1", "{", "S", "-", "2", "a", "}", "b", "}">>,
      <<"{", "C", "F", "0", "x", "F", "F", "0", "0", "A", "A", "3", "3",
        "{", "C", "B", "0", "X", "3", "3", "a", "a", "0", "0", "f", "f", "t", "}", "}">>,
      <<"a", "{", "A", "R", "b", "}", "c", "{", "A", "R", "d", "}", "e", "{", "F", "1", "f">>,
      <<"a", "{", "A", "R", "b", "{", "F", "1", "c", "}", "d", "}", "e">>
    }

\* The inputs of TokenizeTests and TestTokenize_newline (parser_test.go), and
\* two more of their kind: signs between digits, a color with a capital X.
TokenizeLines ==
    {
      <<"t", "e">>,
      <<"t", "e", "s">>,
      <<"{", "F", "t", "e", "s", "t">>,
      <<"{", "S", "t", "e", "s", "t">>,
      <<"{", "C", "F", "t", "e", "s", "t">>,
      <<"{", "C", "B", "t", "e", "s", "t">>,
      <<"{", "A", "R", "t", "e", "s", "t">>,
      <<"0", "x", "f", "f", "1", "e", "F", "0", "9", "a", "t", "e", "s", "t">>,
      <<"0", "x", "f", "f", "1", "e", "F", "0", "t", "e", "s", "t">>,
      <<"0", "3", "1", "2", "4", "9", "5", "t", "e", "s", "t">>,
      <<"5", "9", "4", "2", "1", "3", "0">>,
      <<"\n", "t", "e", "s", "t">>,
      <<"-", "1", "2", "-", "t">>,
      <<"0", "X", "f", "f", "1", "e", "F", "0", "9", "a">>
    }

Lines ==
    LinesOf(MaxItems, Items) \cup LinesOf(MaxCoreItems, CoreItems)
        \cup TestLines \cup ExampleLines \cup TokenizeLines

----------------------------------------------------------------------------
\* Go machine integers: uint64 as limbs <<l3, l2, l1, l0>>, base 2^16.

Limb == 256 * 256

U64(n) == <<0, 0, n \div Limb, n % Limb>>

\* u * m + d on 64 bits, with the carry out of the top limb.
MulAdd(u, m, d) ==
    LET t0 == u[4] * m + d
        t1 == u[3] * m + (t0 \div Limb)
        t2 == u[2] * m + (t1 \div Limb)
        t3 == u[1] * m + (t2 \div Limb)
    IN [v |-> <<t3 % Limb, t2 % Limb, t1 % Limb, t0 % Limb>>,
        carry |-> t3 \div Limb]

\* Two's complement negation on 64 bits.
Neg64(u) ==
    LET t0 == (Limb - 1 - u[4]) + 1
        t1 == (Limb - 1 - u[3]) + (t0 \div Limb)
        t2 == (Limb - 1 - u[2]) + (t1 \div Limb)
        t3 == (Limb - 1 - u[1]) + (t2 \div Limb)
    IN <<t3 % Limb, t2 % Limb, t1 % Limb, t0 % Limb>>

\* uint(n) for a Go int n (|n| < 2^31 in the bounded lines): n mod 2^64.
ToUint(n) == IF n >= 0 THEN U64(n) ELSE Neg64(U64(-n))

\* u < n for a uint u and a small non-negative n.
IsSmall(u) == u[1] = 0 /\ u[2] = 0 /\ u[3] < 128 * 256
SmallVal(u) == u[3] * Limb + u[4]

----------------------------------------------------------------------------
\* strconv.Atoi (fast path: fewer than 19 bytes, which every token of a
\* bounded line is) and strconv.ParseUint(s, 0, 32).

RECURSIVE DecValue(_, _)
DecValue(s, n) ==
    IF s = <<>> THEN n ELSE DecValue(Tail(s), n * 10 + DigitVal(Head(s)))

Atoi(s) ==
    IF s = <<>> THEN [val |-> 0, ok |-> FALSE]
    ELSE LET body == IF Head(s) \in {"-", "+"} THEN Tail(s) ELSE s IN
         IF body = <<>> \/ \E i \in 1..Len(body) : body[i] \notin Digits
         THEN [val |-> 0, ok |-> FALSE]
         ELSE [val |-> IF Head(s) = "-" THEN -DecValue(body, 0)
                                        ELSE DecValue(body, 0),
               ok |-> TRUE]

MaxUint32 == <<0, 0, Limb - 1, Limb - 1>>

RECURSIVE ParseDigits(_, _, _)
\* [val, err]: err is "nil", "syntax" or "range" (bitSize 32).
ParseDigits(s, base, u) ==
    IF s = <<>> THEN [val |-> u, err |-> "nil"]
    ELSE IF DigitVal(Head(s)) >= base THEN [val |-> U64(0), err |-> "syntax"]
    ELSE LET r == MulAdd(u, base, DigitVal(Head(s))) IN
         IF r.carry > 0 \/ r.v[1] > 0 \/ r.v[2] > 0
         THEN [val |-> MaxUint32, err |-> "range"]
         ELSE ParseDigits(Tail(s), base, r.v)

ParseUint(s) ==
    IF s = <<>> THEN [val |-> U64(0), err |-> "syntax"]
    ELSE IF Head(s) = "0"
    THEN IF Len(s) >= 3 /\ s[2] \in {"x", "X"}
         THEN ParseDigits(SubSeq(s, 3, Len(s)), 16, U64(0))
         ELSE IF Len(s) >= 3 /\ s[2] \in {"b", "B"}
         THEN ParseDigits(SubSeq(s, 3, Len(s)), 2, U64(0))
         ELSE IF Len(s) >= 3 /\ s[2] \in {"o", "O"}
         THEN ParseDigits(SubSeq(s, 3, Len(s)), 8, U64(0))
         ELSE ParseDigits(Tail(s), 8, U64(0))
    ELSE ParseDigits(s, 10, U64(0))

----------------------------------------------------------------------------
\* NewBGRA: 0xAARRGGBB to channel bytes.

NilColor == [nil |-> TRUE]

\* Fault seeded for sensitivity: the value is read as 0xAABBGGRR.
NewBGRA_SwapsRedBlue(color) ==
    [nil |-> FALSE,
     R |-> color[4] % 256,
     G |-> color[4] \div 256,
     B |-> color[3] % 256,
     A |-> (color[3] \div 256) % 256]

NewBGRA(color) ==
    [nil |-> FALSE,
     B |-> color[4] % 256,
     G |-> color[4] \div 256,
     R |-> color[3] % 256,
     A |-> (color[3] \div 256) % 256]

----------------------------------------------------------------------------
\* Tokenize: the split function handed to bufio.Scanner.

IsColorLit(d) ==
    /\ Len(d) = 10
    /\ d[1] = "0"
    /\ d[2] \in {"x", "X"}
    /\ \A i \in 3..10 : d[i] \in HexDigits

\* Fault seeded for sensitivity: the run of digits is counted from the first
\* byte also when that byte is the sign.
RECURSIVE DigitRun_CountsSign(_, _)
DigitRun_CountsSign(data, i) ==
    IF i < Len(data) /\ data[i + 1] \in Digits THEN DigitRun_CountsSign(data, i + 1)
    ELSE IF data[1] = "-" THEN i - 1 ELSE i

RECURSIVE DigitRun(_, _)
DigitRun(data, i) ==
    IF i < Len(data) /\ data[i + 1] \in Digits THEN DigitRun(data, i + 1) ELSE i

\* Fault seeded for sensitivity: the token is cut to its first byte.
Tok_FirstByte(data, n) ==
    [advance |-> n, token |-> SubSeq(data, 1, 1), isNil |-> FALSE, err |-> "nil"]

Tok(data, n) == [advance |-> n, token |-> SubSeq(data, 1, n), isNil |-> FALSE,
                 err |-> "nil"]

\* Fault seeded for sensitivity: the numeric rule is tried before the color
\* rule.
Tokenize_NumberFirst(data, EOF) ==
    IF EOF THEN [advance |-> 0, token |-> <<>>, isNil |-> TRUE, err |-> "nil"]
    ELSE IF data[1] = "\n"
    THEN [advance |-> 0, token |-> <<>>, isNil |-> TRUE, err |-> "EndScan"]
    ELSE IF Len(data) < 2 THEN Tok(data, 1)
    ELSE IF SubSeq(data, 1, 2) = <<"{", "F">> THEN Tok(data, 2)
    ELSE IF SubSeq(data, 1, 2) = <<"{", "S">> THEN Tok(data, 2)
    ELSE IF Len(data) < 3 THEN Tok(data, 1)
    ELSE IF SubSeq(data, 1, 3) = <<"{", "C", "F">> THEN Tok(data, 3)
    ELSE IF SubSeq(data, 1, 3) = <<"{", "C", "B">> THEN Tok(data, 3)
    ELSE IF SubSeq(data, 1, 3) = <<"{", "A", "R">> THEN Tok(data, 3)
    ELSE IF data[1] \in Digits \/ data[1] = "-"
    THEN Tok(data, DigitRun(data, IF data[1] = "-" THEN 1 ELSE 0))
    ELSE IF Len(data) >= 10 /\ IsColorLit(SubSeq(data, 1, 10)) THEN Tok(data, 10)
    ELSE Tok(data, 1)

\* Fault seeded for sensitivity: a leading newline is an ordinary byte.
Tokenize_NewlineToken(data, EOF) ==
    IF EOF THEN [advance |-> 0, token |-> <<>>, isNil |-> TRUE, err |-> "nil"]
    ELSE IF Len(data) < 2 THEN Tok(data, 1)
    ELSE IF SubSeq(data, 1, 2) = <<"{", "F">> THEN Tok(data, 2)
    ELSE IF SubSeq(data, 1, 2) = <<"{", "S">> THEN Tok(data, 2)
    ELSE IF Len(data) < 3 THEN Tok(data, 1)
    ELSE IF SubSeq(data, 1, 3) = <<"{", "C", "F">> THEN Tok(data, 3)
    ELSE IF SubSeq(data, 1, 3) = <<"{", "C", "B">> THEN Tok(data, 3)
    ELSE IF SubSeq(data, 1, 3) = <<"{", "A", "R">> THEN Tok(data, 3)
    ELSE IF Len(data) >= 10 /\ IsColorLit(SubSeq(data, 1, 10)) THEN Tok(data, 10)
    ELSE IF data[1] \in Digits \/ data[1] = "-"
    THEN Tok(data, DigitRun(data, IF data[1] = "-" THEN 1 ELSE 0))
    ELSE Tok(data, 1)

Tokenize(data, EOF) ==
    IF EOF THEN [advance |-> 0, token |-> <<>>, isNil |-> TRUE, err |-> "nil"]
    ELSE IF data[1] = "\n"
    THEN [advance |-> 0, token |-> <<>>, isNil |-> TRUE, err |-> "EndScan"]
    ELSE IF Len(data) < 2 THEN Tok(data, 1)
    ELSE IF SubSeq(data, 1, 2) = <<"{", "F">> THEN Tok(data, 2)
    ELSE IF SubSeq(data, 1, 2) = <<"{", "S">> THEN Tok(data, 2)
    ELSE IF Len(data) < 3 THEN Tok(data, 1)
    ELSE IF SubSeq(data, 1, 3) = <<"{", "C", "F">> THEN Tok(data, 3)
    ELSE IF SubSeq(data, 1, 3) = <<"{", "C", "B">> THEN Tok(data, 3)
    ELSE IF SubSeq(data, 1, 3) = <<"{", "A", "R">> THEN Tok(data, 3)
    ELSE IF Len(data) >= 10 /\ IsColorLit(SubSeq(data, 1, 10)) THEN Tok(data, 10)
    ELSE IF data[1] \in Digits \/ data[1] = "-"
    THEN Tok(data, DigitRun(data, IF data[1] = "-" THEN 1 ELSE 0))
    ELSE Tok(data, 1)

----------------------------------------------------------------------------
\* Go slices of uint over the heap of backing arrays.

NilSlice == [arr |-> 0, len |-> 0, cap |-> 0]

\* The elements a slice header shows: backing[0:len].
SliceVal(arrs, s) == IF s.arr = 0 THEN <<>> ELSE SubSeq(arrs[s.arr], 1, s.len)

\* append(s, x): in place when len < cap, else a fresh array of doubled
\* capacity (1 for a nil slice) holding a copy.
AppendSlice(arrs, s, x) ==
    IF s.len < s.cap
    THEN [arrays |-> [arrs EXCEPT ![s.arr][s.len + 1] = x],
          slice |-> [s EXCEPT !.len = s.len + 1]]
    ELSE LET newcap == IF s.cap = 0 THEN 1 ELSE 2 * s.cap
             fresh == [i \in 1..newcap |->
                          IF i <= s.len THEN arrs[s.arr][i]
                          ELSE IF i = s.len + 1 THEN x ELSE U64(0)]
         IN [arrays |-> Append(arrs, fresh),
             slice |-> [arr |-> Len(arrs) + 1, len |-> s.len + 1, cap |-> newcap]]

----------------------------------------------------------------------------
\* TextPiece, and the state of one call of Scan.

\* &TextPiece{}: the zero value.  Origin 0 is the nil pointer.
ZeroPiece ==
    [Text |-> <<>>, Font |-> U64(0), Align |-> "LEFT",
     Foreground |-> NilColor, Background |-> NilColor,
     Screens |-> NilSlice, NotScreens |-> NilSlice, Origin |-> 0]

VARIABLES
    line,         \* the bytes the reader delivers
    pos,          \* bufio.Scanner: bytes consumed so far
    stoken,       \* bufio.Scanner: the last token (what Text() returns)
    serr,         \* bufio.Scanner: "nil", "EOF" or "EndScan"
    heap,         \* the TextPiece objects allocated, by address 1, 2, ...
    arrays,       \* the backing arrays of Screens / NotScreens slices
    text,         \* Scan's `text`: the list of piece addresses
    currentText,  \* Scan's `currentText`
    screening, escaping, bracketing,
    pc,           \* "scan" (in the token loop), "done" (returned), "panic"
    result,       \* the returned list text2 (addresses)
    \* History, read by the properties only:
    prev,         \* the loop state before the last token was handled
    op,           \* which case handled the last token, its tokens, and whether
                  \* its look-ahead Scan() delivered a token (argTok)
    scopeStack,   \* attributes of the piece left, per directive scope still open
    srcPos,       \* per piece, the line positions its text was taken from
    calls,        \* the calls of Scan that returned before this one: line, pieces
    \* gobar.go: main and the Bar.
    barPc,        \* main: "flags" (flag.Parse), "run" (the bar exists), "exit"
    geometries,   \* main's `geometries`, the value of the --geometries flag
    position,     \* main's `position`: "TOP" or "BOTTOM"
    heads,        \* Bar.heads: the monitors, in xinerama's order
    Windows,      \* Bar.Windows
    Geometries,   \* Bar.Geometries
    Fonts,        \* Bar.Fonts: the font faces, by number
    \* History, read by the properties only:
    lastSet,      \* the last call of Geometries.Set: argument, value before,
                  \* error returned, fields logged as bad
    genFailed,    \* the last call of create: the monitors for which
                  \* xwindow.Generate returns an error
    recreated,    \* the present windows were made by the ConfigureNotify
                  \* handler
    painted,      \* the last call of Draw on the present windows: per piece,
                  \* the windows painted
    \* main's goroutines, once the bar is made:
    mpc,          \* the main goroutine: in its select, waiting for pingAfter,
                  \* in Draw, or returned
    xpc,          \* the goroutine of xevent.MainPing: reading, sending
                  \* pingBefore, in the callbacks, sending pingAfter or
                  \* pingQuit
    rpc,          \* the stdin goroutine: in ReadString, sending the pieces,
                  \* logging the error, or returned with the channel closed
    eof,          \* standard input is at its end: every ReadString fails
    msg,          \* the pieces the stdin goroutine is sending, if any
    drawing,      \* the call of Draw in progress, if any: its pieces, and
                  \* b.Windows as they were when it began
    \* A call of ParseFonts:
    fontSpecs,    \* its argument fontSpecs
    creatable,    \* the font paths for which createFont returns a font
    fontFound,    \* what findFont returns: <<path>>, or <<>> with an error
    parsed        \* what ParseFonts returned, <<>> before the call

progVars == <<line, pos, stoken, serr, heap, arrays, text, currentText,
              screening, escaping, bracketing, pc, result>>
barVars == <<barPc, geometries, position, heads, Windows, Geometries, Fonts,
             lastSet, genFailed, recreated, painted>>
fontVars == <<fontSpecs, creatable, fontFound, parsed>>
mainVars == <<mpc, xpc, rpc, eof, msg, drawing>>
scanVars == <<line, pos, stoken, serr, heap, arrays, text, currentText,
              screening, escaping, bracketing, pc, result,
              prev, op, scopeStack, srcPos, calls>>
vars == <<line, pos, stoken, serr, heap, arrays, text, currentText,
          screening, escaping, bracketing, pc, result,
          prev, op, scopeStack, srcPos, calls,
          barPc, geometries, position, heads, Windows, Geometries, Fonts,
          lastSet, genFailed, recreated, painted,
          mpc, xpc, rpc, eof, msg, drawing,
          fontSpecs, creatable, fontFound, parsed>>

\* main before flag.Parse: no flag read, no bar, and its goroutines as they
\* begin; no call of ParseFonts.
NoSet == [value |-> <<>>, before |-> <<>>, err |-> "none", logged |-> <<>>]
NoBar ==
    /\ barPc = "flags"
    /\ geometries = <<>>
    /\ position = "TOP"
    /\ heads = <<>> /\ Windows = <<>> /\ Geometries = <<>> /\ Fonts = <<>>
    /\ lastSet = NoSet
    /\ genFailed = {}
    /\ recreated = FALSE
    /\ painted = <<>>
    /\ mpc = "select" /\ xpc = "read" /\ rpc = "read"
    /\ eof = FALSE /\ msg = <<>> /\ drawing = <<>>
NoFonts ==
    /\ fontSpecs = <<>> /\ creatable = {} /\ fontFound = <<>> /\ parsed = <<>>

\* The attributes of piece p, by value.
Attrs(h, arrs, p) ==
    [Font |-> h[p].Font, Align |-> h[p].Align,
     Foreground |-> h[p].Foreground, Background |-> h[p].Background,
     Screens |-> SliceVal(arrs, h[p].Screens),
     NotScreens |-> SliceVal(arrs, h[p].NotScreens)]

Snapshot ==
    [heap |-> heap, arrays |-> arrays, text |-> text, currentText |-> currentText,
     screening |-> screening, escaping |-> escaping, bracketing |-> bracketing,
     pos |-> pos, stack |-> scopeStack]

\* Fault seeded for sensitivity: the split function's error is not taken as
\* the end of the scan; an empty token is delivered instead.
ScannerScan_IgnoresEndScan(l, p, tok, err) ==
    IF err # "nil" THEN [ok |-> FALSE, pos |-> p, token |-> <<>>, err |-> err]
    ELSE IF p >= Len(l) THEN [ok |-> FALSE, pos |-> p, token |-> <<>>, err |-> "EOF"]
    ELSE LET t == Tokenize(SubSeq(l, p + 1, Len(l)), FALSE) IN
         IF t.err # "nil"
         THEN [ok |-> TRUE, pos |-> p, token |-> <<>>, err |-> "nil"]
         ELSE [ok |-> TRUE, pos |-> p + t.advance, token |-> t.token, err |-> "nil"]

\* bufio.Scanner.Scan over a reader that delivers the line in one Read
\* (strings.Reader, line shorter than the scanner buffer).  After an error
\* the split function is called with atEOF and yields nothing; a split error
\* leaves the previous token in place.
ScannerScan(l, p, tok, err) ==
    IF err # "nil" THEN [ok |-> FALSE, pos |-> p, token |-> <<>>, err |-> err]
    ELSE IF p >= Len(l) THEN [ok |-> FALSE, pos |-> p, token |-> <<>>, err |-> "EOF"]
    ELSE LET t == Tokenize(SubSeq(l, p + 1, Len(l)), FALSE) IN
         IF t.err # "nil"
         THEN [ok |-> FALSE, pos |-> p, token |-> tok, err |-> t.err]
         ELSE [ok |-> TRUE, pos |-> p + t.advance, token |-> t.token, err |-> "nil"]

currentIndex(t, c) ==
    IF \E i \in 1..Len(t) : t[i] = c
    THEN CHOOSE i \in 1..Len(t) : t[i] = c /\ \A j \in 1..(i - 1) : t[j] # c
    ELSE 1

InsertAt(t, i, x) == SubSeq(t, 1, i - 1) \o <<x>> \o SubSeq(t, i, Len(t))

\* Faults seeded for sensitivity: moveCurrent that restores the piece being
\* closed instead of its origin; that starts a scope from a zero piece; that
\* appends whatever the alignment; that puts the new piece first.
moveCurrent_CopiesCurrent(h, t, c, end) ==
    LET copied == IF end THEN [h[c] EXCEPT !.Origin = h[h[c].Origin].Origin]
                  ELSE [h[c] EXCEPT !.Origin = c]
        addr == Len(h) + 1
    IN [heap |-> Append(h, [copied EXCEPT !.Text = <<>>]),
        text |-> IF h[c].Align = "RIGHT"
                 THEN InsertAt(t, currentIndex(t, c), addr)
                 ELSE Append(t, addr),
        cur |-> addr]

moveCurrent_FreshPiece(h, t, c, end) ==
    LET copied == IF end THEN h[h[c].Origin] ELSE [ZeroPiece EXCEPT !.Origin = c]
        addr == Len(h) + 1
    IN [heap |-> Append(h, [copied EXCEPT !.Text = <<>>]),
        text |-> IF h[c].Align = "RIGHT"
                 THEN InsertAt(t, currentIndex(t, c), addr)
                 ELSE Append(t, addr),
        cur |-> addr]

moveCurrent_AlwaysAppends(h, t, c, end) ==
    LET copied == IF end THEN h[h[c].Origin] ELSE [h[c] EXCEPT !.Origin = c]
        addr == Len(h) + 1
    IN [heap |-> Append(h, [copied EXCEPT !.Text = <<>>]),
        text |-> Append(t, addr),
        cur |-> addr]

moveCurrent_Prepends(h, t, c, end) ==
    LET copied == IF end THEN h[h[c].Origin] ELSE [h[c] EXCEPT !.Origin = c]
        addr == Len(h) + 1
    IN [heap |-> Append(h, [copied EXCEPT !.Text = <<>>]),
        text |-> IF h[c].Align = "RIGHT"
                 THEN InsertAt(t, currentIndex(t, c), addr)
                 ELSE <<addr>> \o t,
        cur |-> addr]

\* moveCurrent(end): the new piece, the new list and the new current address.
moveCurrent(h, t, c, end) ==
    LET copied == IF end THEN h[h[c].Origin] ELSE [h[c] EXCEPT !.Origin = c]
        newCurrent == [copied EXCEPT !.Text = <<>>]
        addr == Len(h) + 1
    IN [heap |-> Append(h, newCurrent),
        text |-> IF h[c].Align = "RIGHT"
                 THEN InsertAt(t, currentIndex(t, c), addr)
                 ELSE Append(t, addr),
        cur |-> addr]

\* Fault seeded for sensitivity: the directive prefix is not written back.
logPieceError_DropsPrefix(h, c, p1, p2) == [h EXCEPT ![c].Text = @ \o p2]

\* logPieceError: the pieces are appended to the current piece's text.
logPieceError(h, c, p1, p2) == [h EXCEPT ![c].Text = @ \o p1 \o p2]

\* Fault seeded for sensitivity: no piece is filtered out.
NonEmpty_KeepsAll(h, t) == t

\* The empty-piece filter at the end of Scan.
RECURSIVE NonEmpty(_, _)
NonEmpty(h, t) ==
    IF t = <<>> THEN <<>>
    ELSE IF h[Head(t)].Text # <<>> THEN <<Head(t)>> \o NonEmpty(h, Tail(t))
    ELSE NonEmpty(h, Tail(t))

----------------------------------------------------------------------------
\* Scan as a function of the line, for the properties that compare the scans
\* of two lines: ScanStep is one turn of the token loop on the locals s,
\* ScanRun the whole call.  The actions below do the same on the variables
\* (StepAgrees states it).

ScanStart ==
    [pos |-> 0, stoken |-> <<>>, serr |-> "nil",
     heap |-> <<ZeroPiece>>, arrays |-> <<>>, text |-> <<1>>, currentText |-> 1,
     screening |-> FALSE, escaping |-> FALSE, bracketing |-> 0,
     pc |-> "scan", result |-> <<>>]

\* One turn of the loop, given what `for scanner.Scan()` delivered (q1) and
\* what the look-ahead scanner.Scan() of a case with an argument delivers (q2).
ScanTurn(q1, q2, s) ==
    LET tok == q1.token
        arg == q2.token
        s1 == [s EXCEPT !.pos = q1.pos, !.stoken = q1.token, !.serr = q1.err]
        s2 == [s EXCEPT !.pos = q2.pos, !.stoken = q2.token, !.serr = q2.err]
        logged == logPieceError(s.heap, s.currentText, tok, arg)
        int == Atoi(arg)
        col == ParseUint(arg)
        mInt == moveCurrent(IF int.ok THEN s.heap ELSE logged, s.text,
                            s.currentText, FALSE)
        mCol == moveCurrent(IF col.err = "nil" THEN s.heap ELSE logged, s.text,
                            s.currentText, FALSE)
        mAR == moveCurrent(s.heap, s.text, s.currentText, FALSE)
        mEnd == moveCurrent(s.heap, s.text, s.currentText, TRUE)
        moved(b, m, h) == [b EXCEPT !.heap = h, !.text = m.text, !.currentText = m.cur]
        literal(b) == [b EXCEPT !.heap[s.currentText].Text = @ \o tok,
                                !.escaping = FALSE]
    IN
    IF ~q1.ok THEN [s1 EXCEPT !.result = NonEmpty(s.heap, s.text), !.pc = "done"]
    ELSE IF tok = <<"\\">> THEN [s1 EXCEPT !.escaping = TRUE]
    ELSE IF ~s.escaping /\ tok = <<"{", "F">>
    THEN moved(s2, mInt, [mInt.heap EXCEPT ![mInt.cur].Font = ToUint(int.val)])
    ELSE IF ~s.escaping /\ tok = <<"{", "S">>
    THEN IF arg = <<>> THEN [moved(s2, mInt, mInt.heap) EXCEPT !.pc = "panic"]
         ELSE IF Head(arg) = "-"
         THEN LET app == AppendSlice(s.arrays, mInt.heap[mInt.cur].NotScreens,
                                     ToUint(-int.val))
              IN [moved(s2, mInt, [mInt.heap EXCEPT ![mInt.cur].NotScreens = app.slice])
                      EXCEPT !.arrays = app.arrays, !.screening = TRUE]
         ELSE LET app == AppendSlice(s.arrays, mInt.heap[mInt.cur].Screens,
                                     ToUint(int.val))
              IN [moved(s2, mInt, [mInt.heap EXCEPT ![mInt.cur].Screens = app.slice])
                      EXCEPT !.arrays = app.arrays, !.screening = TRUE]
    ELSE IF ~s.escaping /\ tok = <<"{", "C", "F">>
    THEN moved(s2, mCol, [mCol.heap EXCEPT ![mCol.cur].Foreground = NewBGRA(col.val)])
    ELSE IF ~s.escaping /\ tok = <<"{", "C", "B">>
    THEN moved(s2, mCol, [mCol.heap EXCEPT ![mCol.cur].Background = NewBGRA(col.val)])
    ELSE IF ~s.escaping /\ tok = <<"{", "A", "R">>
    THEN moved(s1, mAR, [mAR.heap EXCEPT ![mAR.cur].Align = "RIGHT"])
    ELSE IF ~s.escaping /\ tok = <<"{">>
    THEN [s1 EXCEPT !.bracketing = s.bracketing + 1]
    ELSE IF ~s.escaping /\ tok = <<"}">> /\ s.bracketing > 0
    THEN [s1 EXCEPT !.bracketing = s.bracketing - 1]
    ELSE IF ~s.escaping /\ tok = <<"}">> /\ s.heap[s.currentText].Origin # 0
    THEN [moved(s1, mEnd, mEnd.heap) EXCEPT !.screening = FALSE]
    ELSE IF ~s.escaping /\ tok = <<"}">>
    THEN [literal(s1) EXCEPT !.screening = FALSE]
    ELSE IF s.screening /\ tok = <<",">>
    THEN LET h1 == IF int.ok THEN s.heap ELSE logged
             app == AppendSlice(s.arrays, h1[s.currentText].Screens, ToUint(int.val))
         IN [s2 EXCEPT !.heap = [h1 EXCEPT ![s.currentText].Screens = app.slice],
                       !.arrays = app.arrays, !.escaping = FALSE]
    ELSE literal(s1)

ScanStep(l, s) ==
    LET q1 == ScannerScan(l, s.pos, s.stoken, s.serr)
        q2 == ScannerScan(l, q1.pos, q1.token, q1.err)
    IN ScanTurn(q1, q2, s)

RECURSIVE ScanFrom(_, _)
ScanFrom(l, s) == IF s.pc # "scan" THEN s ELSE ScanFrom(l, ScanStep(l, s))

ScanRun(l) == ScanFrom(l, ScanStart)

\* The same over a reader that delivers at most c bytes per Read (and, for
\* c the size of the scanner's buffer, over a line longer than the buffer).
\* Tokenize returns a token for any data that is not empty and never asks for
\* more, so the scanner reads only when its buffer is used up, and the data
\* Tokenize sees ends where the chunk of its first byte ends.
MaxChunk == 3

ChunkEnd(c, l, p) ==
    IF c * ((p \div c) + 1) < Len(l) THEN c * ((p \div c) + 1) ELSE Len(l)

ChunkScannerScan(c, l, p, tok, err) ==
    IF err # "nil" THEN [ok |-> FALSE, pos |-> p, token |-> <<>>, err |-> err]
    ELSE IF p >= Len(l) THEN [ok |-> FALSE, pos |-> p, token |-> <<>>, err |-> "EOF"]
    ELSE LET t == Tokenize(SubSeq(l, p + 1, ChunkEnd(c, l, p)), FALSE) IN
         IF t.err # "nil"
         THEN [ok |-> FALSE, pos |-> p, token |-> tok, err |-> t.err]
         ELSE [ok |-> TRUE, pos |-> p + t.advance, token |-> t.token, err |-> "nil"]

ChunkStep(c, l, s) ==
    LET q1 == ChunkScannerScan(c, l, s.pos, s.stoken, s.serr)
        q2 == ChunkScannerScan(c, l, q1.pos, q1.token, q1.err)
    IN ScanTurn(q1, q2, s)

RECURSIVE ChunkFrom(_, _, _)
ChunkFrom(c, l, s) ==
    IF s.pc # "scan" THEN s ELSE ChunkFrom(c, l, ChunkStep(c, l, s))

ChunkRun(c, l) == ChunkFrom(c, l, ScanStart)

\* What the caller gets: the returned pieces by value, or the panic.
Returned(s) ==
    IF s.pc = "panic" THEN <<"panic">>
    ELSE [i \in 1..Len(s.result) |->
             [Text |-> s.heap[s.result[i]].Text,
              Attrs |-> Attrs(s.heap, s.arrays, s.result[i])]]

----------------------------------------------------------------------------
\* Scan: the token loop, one action per case of its switch.

NoOp == [name |-> "init", tok |-> <<>>, arg |-> <<>>, argOk |-> TRUE, argTok |-> FALSE]

Init ==
    /\ line \in Lines
    /\ pos = 0 /\ stoken = <<>> /\ serr = "nil"
    /\ heap = <<ZeroPiece>> /\ arrays = <<>>
    /\ text = <<1>> /\ currentText = 1
    /\ screening = FALSE /\ escaping = FALSE /\ bracketing = 0
    /\ pc = "scan" /\ result = <<>>
    /\ prev = [heap |-> <<ZeroPiece>>, arrays |-> <<>>, text |-> <<1>>,
               currentText |-> 1, screening |-> FALSE, escaping |-> FALSE,
               bracketing |-> 0, pos |-> 0, stack |-> <<>>]
    /\ op = NoOp
    /\ scopeStack = <<>>
    /\ srcPos = << <<>> >>
    /\ calls = <<>>
    /\ NoBar
    /\ NoFonts

\* `for scanner.Scan()` and `stext := scanner.Text()`.
r1 == ScannerScan(line, pos, stoken, serr)
stext == r1.token
\* The `scanner.Scan(); text := scanner.Text()` of the cases that take an argument.
r2 == ScannerScan(line, r1.pos, r1.token, r1.err)
argText == r2.token

\* The line positions of the bytes of stext and of argText (a look-ahead that
\* fails at a newline leaves the previous token, stext, as the text).
PosSeq(lo, hi) == [k \in 1..(hi - lo) |-> lo + k]
TokPos == PosSeq(pos, r1.pos)
ArgPos == IF r2.ok THEN PosSeq(r1.pos, r2.pos)
          ELSE IF argText # <<>> THEN TokPos ELSE <<>>

Took(r) == pos' = r.pos /\ stoken' = r.token /\ serr' = r.err

Did(name, arg, ok) ==
    /\ prev' = Snapshot
    /\ op' = [name |-> name, tok |-> stext, arg |-> arg, argOk |-> ok,
              argTok |-> (name \in {"F", "S", "CF", "CB", ","} /\ r2.ok)]
    /\ UNCHANGED calls
    /\ UNCHANGED barVars
    /\ UNCHANGED mainVars
    /\ UNCHANGED fontVars

InLoop == pc = "scan" /\ r1.ok

\* What every opening directive does after parsing its argument: the pieces
\* named to logPieceError went to the piece being left, m is moveCurrent(false).
OpenScope(name, arg, ok, last, m, h2, arrs2, panics) ==
    /\ Took(last)
    /\ heap' = h2 /\ arrays' = arrs2
    /\ text' = m.text /\ currentText' = m.cur
    /\ pc' = IF panics THEN "panic" ELSE "scan"
    /\ Did(name, arg, ok)
    /\ scopeStack' = Append(scopeStack, Attrs(heap, arrays, currentText))
    /\ srcPos' = Append(IF ok THEN srcPos
                        ELSE [srcPos EXCEPT ![currentText] = @ \o TokPos \o ArgPos],
                        <<>>)
    /\ UNCHANGED <<line, escaping, bracketing, result>>

ScanBackslash ==
    /\ InLoop /\ stext = <<"\\">>
    /\ escaping' = TRUE
    /\ Took(r1) /\ Did("backslash", <<>>, TRUE)
    /\ UNCHANGED <<line, heap, arrays, text, currentText, screening, bracketing,
                   pc, result, scopeStack, srcPos>>

ScanF ==
    /\ InLoop /\ ~escaping /\ stext = <<"{", "F">>
    /\ LET a == Atoi(argText)
           h1 == IF a.ok THEN heap
                 ELSE logPieceError(heap, currentText, stext, argText)
           m == moveCurrent(h1, text, currentText, FALSE)
           h2 == [m.heap EXCEPT ![m.cur].Font = ToUint(a.val)]
       IN OpenScope("F", argText, a.ok, r2, m, h2, arrays, FALSE)
    /\ UNCHANGED screening

\* Fault seeded for sensitivity: the {S case without the test of the sign.
ScanS_SignIgnored ==
    /\ InLoop /\ ~escaping /\ stext = <<"{", "S">>
    /\ LET a == Atoi(argText)
           h1 == IF a.ok THEN heap
                 ELSE logPieceError(heap, currentText, stext, argText)
           m == moveCurrent(h1, text, currentText, FALSE)
           panics == argText = <<>>
           app == AppendSlice(arrays, m.heap[m.cur].Screens, ToUint(a.val))
           h2 == IF panics THEN m.heap
                 ELSE [m.heap EXCEPT ![m.cur].Screens = app.slice]
       IN /\ OpenScope("S", argText, a.ok, r2, m, h2,
                       IF panics THEN arrays ELSE app.arrays, panics)
          /\ screening' = IF panics THEN screening ELSE TRUE

ScanS ==
    /\ InLoop /\ ~escaping /\ stext = <<"{", "S">>
    /\ LET a == Atoi(argText)
           h1 == IF a.ok THEN heap
                 ELSE logPieceError(heap, currentText, stext, argText)
           m == moveCurrent(h1, text, currentText, FALSE)
           \* text[0] on an empty string: index out of range
           panics == argText = <<>>
           neg == ~panics /\ Head(argText) = "-"
           app == IF neg
                  THEN AppendSlice(arrays, m.heap[m.cur].NotScreens, ToUint(-a.val))
                  ELSE AppendSlice(arrays, m.heap[m.cur].Screens, ToUint(a.val))
           h2 == IF panics THEN m.heap
                 ELSE IF neg THEN [m.heap EXCEPT ![m.cur].NotScreens = app.slice]
                 ELSE [m.heap EXCEPT ![m.cur].Screens = app.slice]
       IN /\ OpenScope("S", argText, a.ok, r2, m, h2,
                       IF panics THEN arrays ELSE app.arrays, panics)
          /\ screening' = IF panics THEN screening ELSE TRUE

ScanCF ==
    /\ InLoop /\ ~escaping /\ stext = <<"{", "C", "F">>
    /\ LET fg == ParseUint(argText)
           h1 == IF fg.err = "nil" THEN heap
                 ELSE logPieceError(heap, currentText, stext, argText)
           m == moveCurrent(h1, text, currentText, FALSE)
           h2 == [m.heap EXCEPT ![m.cur].Foreground = NewBGRA(fg.val)]
       IN OpenScope("CF", argText, fg.err = "nil", r2, m, h2, arrays, FALSE)
    /\ UNCHANGED screening

ScanCB ==
    /\ InLoop /\ ~escaping /\ stext = <<"{", "C", "B">>
    /\ LET bg == ParseUint(argText)
           h1 == IF bg.err = "nil" THEN heap
                 ELSE logPieceError(heap, currentText, stext, argText)
           m == moveCurrent(h1, text, currentText, FALSE)
           h2 == [m.heap EXCEPT ![m.cur].Background = NewBGRA(bg.val)]
       IN OpenScope("CB", argText, bg.err = "nil", r2, m, h2, arrays, FALSE)
    /\ UNCHANGED screening

\* Fault seeded for sensitivity: the {AR case is taken whether or not the
\* prefix is escaped.
ScanAR_IgnoresEscape ==
    /\ InLoop /\ stext = <<"{", "A", "R">>
    /\ LET m == moveCurrent(heap, text, currentText, FALSE)
           h2 == [m.heap EXCEPT ![m.cur].Align = "RIGHT"]
       IN OpenScope("AR", <<>>, TRUE, r1, m, h2, arrays, FALSE)
    /\ UNCHANGED screening

ScanAR ==
    /\ InLoop /\ ~escaping /\ stext = <<"{", "A", "R">>
    /\ LET m == moveCurrent(heap, text, currentText, FALSE)
           h2 == [m.heap EXCEPT ![m.cur].Align = "RIGHT"]
       IN OpenScope("AR", <<>>, TRUE, r1, m, h2, arrays, FALSE)
    /\ UNCHANGED screening

\* Fault seeded for sensitivity: the bare brace is not counted.
ScanOpenBrace_NoCount ==
    /\ InLoop /\ ~escaping /\ stext = <<"{">>
    /\ bracketing' = bracketing
    /\ Took(r1) /\ Did("{", <<>>, TRUE)
    /\ UNCHANGED <<line, heap, arrays, text, currentText, screening, escaping,
                   pc, result, scopeStack, srcPos>>

ScanOpenBrace ==
    /\ InLoop /\ ~escaping /\ stext = <<"{">>
    /\ bracketing' = bracketing + 1
    /\ Took(r1) /\ Did("{", <<>>, TRUE)
    /\ UNCHANGED <<line, heap, arrays, text, currentText, screening, escaping,
                   pc, result, scopeStack, srcPos>>

\* Fault seeded for sensitivity: the literal text is dropped instead of
\* appended.
DefaultBody_DropsText(scr) ==
    IF scr /\ stext = <<",">>
    THEN LET a == Atoi(argText)
             h1 == IF a.ok THEN heap
                   ELSE logPieceError(heap, currentText, stext, argText)
             app == AppendSlice(arrays, h1[currentText].Screens, ToUint(a.val))
         IN /\ heap' = [h1 EXCEPT ![currentText].Screens = app.slice]
            /\ arrays' = app.arrays
            /\ Took(r2) /\ Did(",", argText, a.ok)
            /\ srcPos' = IF a.ok THEN srcPos
                         ELSE [srcPos EXCEPT ![currentText] = @ \o TokPos \o ArgPos]
    ELSE /\ heap' = heap
         /\ arrays' = arrays
         /\ Took(r1) /\ Did("text", <<>>, TRUE)
         /\ srcPos' = srcPos

\* Fault seeded for sensitivity: a chained number written with a leading `-`
\* goes to NotScreens, as in the {S case.
DefaultBody_SignedChain(scr) ==
    IF scr /\ stext = <<",">>
    THEN LET a == Atoi(argText)
             h1 == IF a.ok THEN heap
                   ELSE logPieceError(heap, currentText, stext, argText)
             neg == argText # <<>> /\ Head(argText) = "-"
             app == IF neg
                    THEN AppendSlice(arrays, h1[currentText].NotScreens, ToUint(-a.val))
                    ELSE AppendSlice(arrays, h1[currentText].Screens, ToUint(a.val))
         IN /\ heap' = IF neg THEN [h1 EXCEPT ![currentText].NotScreens = app.slice]
                       ELSE [h1 EXCEPT ![currentText].Screens = app.slice]
            /\ arrays' = app.arrays
            /\ Took(r2) /\ Did(",", argText, a.ok)
            /\ srcPos' = IF a.ok THEN srcPos
                         ELSE [srcPos EXCEPT ![currentText] = @ \o TokPos \o ArgPos]
    ELSE /\ heap' = [heap EXCEPT ![currentText].Text = @ \o stext]
         /\ arrays' = arrays
         /\ Took(r1) /\ Did("text", <<>>, TRUE)
         /\ srcPos' = [srcPos EXCEPT ![currentText] = @ \o TokPos]

\* The default case: a chained screen number, or literal text.
DefaultBody(scr) ==
    IF scr /\ stext = <<",">>
    THEN LET a == Atoi(argText)
             h1 == IF a.ok THEN heap
                   ELSE logPieceError(heap, currentText, stext, argText)
             app == AppendSlice(arrays, h1[currentText].Screens, ToUint(a.val))
         IN /\ heap' = [h1 EXCEPT ![currentText].Screens = app.slice]
            /\ arrays' = app.arrays
            /\ Took(r2) /\ Did(",", argText, a.ok)
            /\ srcPos' = IF a.ok THEN srcPos
                         ELSE [srcPos EXCEPT ![currentText] = @ \o TokPos \o ArgPos]
    ELSE /\ heap' = [heap EXCEPT ![currentText].Text = @ \o stext]
         /\ arrays' = arrays
         /\ Took(r1) /\ Did("text", <<>>, TRUE)
         /\ srcPos' = [srcPos EXCEPT ![currentText] = @ \o TokPos]

\* Fault seeded for sensitivity: a `}` that closes a bare group is also added
\* to the text of the current piece.
ScanCloseBrace_GroupAddsText ==
    /\ InLoop /\ ~escaping /\ stext = <<"}">>
    /\ IF bracketing > 0
       THEN /\ bracketing' = bracketing - 1
            /\ heap' = [heap EXCEPT ![currentText].Text = @ \o stext]
            /\ Took(r1) /\ Did("}group", <<>>, TRUE)
            /\ UNCHANGED <<arrays, text, currentText, screening, escaping,
                           scopeStack, srcPos>>
       ELSE /\ screening' = FALSE
            /\ IF heap[currentText].Origin # 0
               THEN LET m == moveCurrent(heap, text, currentText, TRUE) IN
                    /\ heap' = m.heap /\ text' = m.text /\ currentText' = m.cur
                    /\ Took(r1) /\ Did("}scope", <<>>, TRUE)
                    /\ scopeStack' = SubSeq(scopeStack, 1, Len(scopeStack) - 1)
                    /\ srcPos' = Append(srcPos, <<>>)
                    /\ UNCHANGED <<arrays, escaping, bracketing>>
               ELSE /\ DefaultBody(FALSE)
                    /\ escaping' = FALSE
                    /\ UNCHANGED <<text, currentText, bracketing, scopeStack>>
    /\ UNCHANGED <<line, pc, result>>

ScanCloseBrace ==
    /\ InLoop /\ ~escaping /\ stext = <<"}">>
    /\ IF bracketing > 0
       THEN /\ bracketing' = bracketing - 1
            /\ Took(r1) /\ Did("}group", <<>>, TRUE)
            /\ UNCHANGED <<heap, arrays, text, currentText, screening, escaping,
                           scopeStack, srcPos>>
       ELSE /\ screening' = FALSE
            /\ IF heap[currentText].Origin # 0
               THEN LET m == moveCurrent(heap, text, currentText, TRUE) IN
                    /\ heap' = m.heap /\ text' = m.text /\ currentText' = m.cur
                    /\ Took(r1) /\ Did("}scope", <<>>, TRUE)
                    /\ scopeStack' = SubSeq(scopeStack, 1, Len(scopeStack) - 1)
                    /\ srcPos' = Append(srcPos, <<>>)
                    /\ UNCHANGED <<arrays, escaping, bracketing>>
               ELSE \* fallthrough
                    /\ DefaultBody(FALSE)
                    /\ escaping' = FALSE
                    /\ UNCHANGED <<text, currentText, bracketing, scopeStack>>
    /\ UNCHANGED <<line, pc, result>>

Prefixes == { <<"{", "F">>, <<"{", "S">>, <<"{", "C", "F">>, <<"{", "C", "B">>,
              <<"{", "A", "R">>, <<"{">>, <<"}">> }

ScanDefault ==
    /\ InLoop /\ stext # <<"\\">>
    /\ ~(~escaping /\ stext \in Prefixes)
    /\ DefaultBody(screening)
    /\ escaping' = FALSE
    /\ UNCHANGED <<line, text, currentText, screening, bracketing, pc, result,
                   scopeStack>>

\* scanner.Scan() returned false: drop the empty pieces and return.
ScanReturn ==
    /\ pc = "scan" /\ ~r1.ok
    /\ result' = NonEmpty(heap, text)
    /\ pc' = "done"
    /\ Took(r1) /\ Did("return", <<>>, TRUE)
    /\ UNCHANGED <<line, heap, arrays, text, currentText, screening, escaping,
                   bracketing, scopeStack, srcPos>>

Next ==
    \/ ScanBackslash
    \/ ScanF
    \/ ScanS
    \/ ScanCF
    \/ ScanCB
    \/ ScanAR
    \/ ScanOpenBrace
    \/ ScanCloseBrace
    \/ ScanDefault
    \/ ScanReturn

Spec == Init /\ [][Next]_vars

\* The variables as the record ScanStep works on.
Locals ==
    [pos |-> pos, stoken |-> stoken, serr |-> serr,
     heap |-> heap, arrays |-> arrays, text |-> text, currentText |-> currentText,
     screening |-> screening, escaping |-> escaping, bracketing |-> bracketing,
     pc |-> pc, result |-> result]

\* Every step of the actions is the step of the function, and a finished
\* call is the function's result.
StepAgrees == [][Locals' = ScanStep(line, Locals)]_vars
RunAgrees == pc # "scan" => Locals = ScanRun(line)

----------------------------------------------------------------------------
\* Several calls of Scan on one TextParser, one after the other, as TestScan
\* and main make them.  The parser's only field is the compiled rgbPattern;
\* every other thing Scan works on is a local made anew by the call.

MaxCalls == 3

\* Lines for the repeated calls: between them they take every case of the
\* loop, and some end with escaping, screening or bracketing set.
CallLines ==
    {
      <<"{", "A", "R", "t", "\\">>,
      <<"{", "S", "1", ",", "2", "t">>,
      <<"{", "t">>,
      <<"{", "F", "1", "a", "}", "b">>,
      <<"{", "C", "F", "0", "x", "F", "F", "0", "0", "A", "A", "3", "3", "t", "}">>,
      <<"{", "C", "B", "0", "x", "3", "3", "A", "A", "0", "0", "F", "F", "t", "}">>,
      <<"{", "S", "1", ",", "2", ",", "3", "{", "S", "4", "a", "}", "{", "S", "5", "b", "}", "}">>,
      <<",", "2", "}", "\n", "t">>
    }

\* Fault seeded for sensitivity: escaping is kept from the call before, as a
\* field of the parser would be.
NextCall_KeepsEscaping ==
    /\ pc = "done" /\ Len(calls) < MaxCalls - 1
    /\ calls' = Append(calls, [line |-> line, pieces |-> Returned(Locals)])
    /\ line' \in CallLines
    /\ pos' = 0 /\ stoken' = <<>> /\ serr' = "nil"
    /\ heap' = <<ZeroPiece>> /\ arrays' = <<>>
    /\ text' = <<1>> /\ currentText' = 1
    /\ screening' = FALSE /\ escaping' = escaping /\ bracketing' = 0
    /\ pc' = "scan" /\ result' = <<>>
    /\ prev' = [heap |-> <<ZeroPiece>>, arrays |-> <<>>, text |-> <<1>>,
                currentText |-> 1, screening |-> FALSE, escaping |-> FALSE,
                bracketing |-> 0, pos |-> 0, stack |-> <<>>]
    /\ op' = NoOp
    /\ scopeStack' = <<>>
    /\ srcPos' = << <<>> >>
    /\ UNCHANGED barVars
    /\ UNCHANGED mainVars
    /\ UNCHANGED fontVars

\* The caller keeps the returned pieces and calls Scan with a new reader:
\* the scanner, the piece list, the current piece and the three flags are
\* made anew (parser.go:134-141, 180-182).
NextCall ==
    /\ pc = "done" /\ Len(calls) < MaxCalls - 1
    /\ calls' = Append(calls, [line |-> line, pieces |-> Returned(Locals)])
    /\ line' \in CallLines
    /\ pos' = 0 /\ stoken' = <<>> /\ serr' = "nil"
    /\ heap' = <<ZeroPiece>> /\ arrays' = <<>>
    /\ text' = <<1>> /\ currentText' = 1
    /\ screening' = FALSE /\ escaping' = FALSE /\ bracketing' = 0
    /\ pc' = "scan" /\ result' = <<>>
    /\ prev' = [heap |-> <<ZeroPiece>>, arrays |-> <<>>, text |-> <<1>>,
                currentText |-> 1, screening |-> FALSE, escaping |-> FALSE,
                bracketing |-> 0, pos |-> 0, stack |-> <<>>]
    /\ op' = NoOp
    /\ scopeStack' = <<>>
    /\ srcPos' = << <<>> >>
    /\ UNCHANGED barVars
    /\ UNCHANGED mainVars
    /\ UNCHANGED fontVars

InitCalls ==
    /\ line \in CallLines
    /\ pos = 0 /\ stoken = <<>> /\ serr = "nil"
    /\ heap = <<ZeroPiece>> /\ arrays = <<>>
    /\ text = <<1>> /\ currentText = 1
    /\ screening = FALSE /\ escaping = FALSE /\ bracketing = 0
    /\ pc = "scan" /\ result = <<>>
    /\ prev = [heap |-> <<ZeroPiece>>, arrays |-> <<>>, text |-> <<1>>,
               currentText |-> 1, screening |-> FALSE, escaping |-> FALSE,
               bracketing |-> 0, pos |-> 0, stack |-> <<>>]
    /\ op = NoOp
    /\ scopeStack = <<>>
    /\ srcPos = << <<>> >>
    /\ calls = <<>>
    /\ NoBar
    /\ NoFonts

NextCalls ==
    \/ ScanBackslash
    \/ ScanF
    \/ ScanS
    \/ ScanCF
    \/ ScanCB
    \/ ScanAR
    \/ ScanOpenBrace
    \/ ScanCloseBrace
    \/ ScanDefault
    \/ ScanReturn
    \/ NextCall

SpecCalls == InitCalls /\ [][NextCalls]_vars

\* One call of Scan that keeps running: Scan is sequential code, so a step
\* that can be taken is taken.
MaxLiveItems == 2

\* The lexemes of the lines of SpecLive: every prefix, the backslash, the
\* newline, a digit and a letter.
LiveItems ==
    { <<"{", "F">>, <<"{", "S">>, <<"{", "C", "F">>, <<"{", "C", "B">>,
      <<"{", "A", "R">>, <<"{">>, <<"}">>, <<"\\">>, <<"\n">>, <<"1">>, <<"t">> }

LiveLines == LinesOf(MaxLiveItems, LiveItems)

InitLive == Init /\ line \in LiveLines

SpecLive == InitLive /\ [][Next]_vars /\ WF_vars(Next)

----------------------------------------------------------------------------
\* gobar.go: the --geometries flag.  A Geometry is its four uint16 fields; a
\* nil *Geometry is NilGeometry.

NilGeometry == [nil |-> TRUE]
MkGeometry(w, h, x, y) == [nil |-> FALSE, Width |-> w, Height |-> h, X |-> x, Y |-> y]

\* &Geometry{Height: 16}
DefaultGeometry == MkGeometry(0, 16, 0, 0)

\* The values of the flag are made of at most MaxFields fields of GeomFields,
\* joined by commas, of the inputs of TestGeometriesSet and of OtherGeometries.
MaxFields == 2

\* The fields: empty, the two of the test, a word, one whose width does not
\* fit 16 bits and one with a letter after its last number.  None holds
\* white space.
GeomFields ==
    {
      <<>>,
      <<"0", "x", "1", "6", "+", "0", "+", "0">>,
      <<"2", "2", "x", "0", "1", "+", "2", "0", "+", "1", "5">>,
      <<"w", "r", "o", "n", "g", "o">>,
      <<"7", "0", "0", "0", "0", "x", "1", "6", "+", "0", "+", "0">>,
      <<"1", "x", "2", "+", "3", "+", "4", "t">>
    }

\* More values: a field that ends early, one that ends before a number, one
\* that lacks its first number, a signed one, and the largest numbers.
OtherGeometries ==
    {
      <<"1", "x", "2", "+", "3">>,
      <<"1", "x", "2", "+", "3", "+">>,
      <<"x", "1", "6", "+", "0", "+", "0">>,
      <<"-", "1", "x", "2", "+", "3", "+", "4">>,
      <<"6", "5", "5", "3", "5", "x", "6", "5", "5", "3", "5", "+", "0", "+", "0">>,
      <<"0", "x", "1", "6", "+", "0", "+", "6", "5", "5", "3", "6">>
    }

RECURSIVE JoinedFields(_)
JoinedFields(n) ==
    IF n = 1 THEN GeomFields
    ELSE LET S == JoinedFields(n - 1) IN
         S \cup {v \o <<",">> \o f : v \in S, f \in GeomFields}

\* The arguments of Set in TestGeometriesSet that are longer (gobar_test.go).
TestGeometries ==
    {
      <<",", "0", "x", "1", "6", "+", "0", "+", "0", ",">>,
      <<",", "0", "x", "1", "6", "+", "0", "+", "0", ",",
        "2", "2", "x", "0", "1", "+", "2", "0", "+", "1", "5", ",">>,
      <<",", "0", "x", "1", "6", "+", "0", "+", "0", ",", ",",
        "2", "2", "x", "0", "1", "+", "2", "0", "+", "1", "5", ",">>
    }

GeomValues == JoinedFields(MaxFields) \cup TestGeometries \cup OtherGeometries

\* strings.Split(s, ","): the fields between the commas, one more than commas.
RECURSIVE Split(_)
Split(s) ==
    IF \A i \in 1..Len(s) : s[i] # "," THEN <<s>>
    ELSE LET i == CHOOSE i \in 1..Len(s) :
                      s[i] = "," /\ \A j \in 1..(i - 1) : s[j] # ","
         IN <<SubSeq(s, 1, i - 1)>> \o Split(SubSeq(s, i + 1, Len(s)))

\* fmt, scanning %d into a *uint16 (scanUint, bitSize 16): the longest run of
\* decimal digits, no sign; an error at end of input, without a digit, and
\* for a number of 2^16 or more.
LeadingDigits(s) ==
    CHOOSE k \in 0..Len(s) :
        /\ \A i \in 1..k : s[i] \in Digits
        /\ k = Len(s) \/ s[k + 1] \notin Digits

RECURSIVE TrimZeros(_)
TrimZeros(s) == IF Len(s) > 1 /\ Head(s) = "0" THEN TrimZeros(Tail(s)) ELSE s

ScanUint16(s) ==
    LET k == LeadingDigits(s)
        tok == TrimZeros(SubSeq(s, 1, k))
    IN  IF k = 0 THEN [ok |-> FALSE, val |-> 0, rest |-> s]
        ELSE IF Len(tok) > 5 \/ DecValue(tok, 0) >= 65536
        THEN [ok |-> FALSE, val |-> 0, rest |-> s]
        ELSE [ok |-> TRUE, val |-> DecValue(tok, 0),
              rest |-> SubSeq(s, k + 1, Len(s))]

\* fmt.Sscanf(s, "%dx%d+%d+%d", ...): a verb scans a number, any other byte
\* of the format must be the next byte of the input; input left over when
\* the format is used up is no error.  [err, vals]: vals are the numbers
\* stored before the end or the error.
GeometryFormat == <<"%d", "x", "%d", "+", "%d", "+", "%d">>

RECURSIVE DoScanf(_, _, _)
DoScanf(format, s, vals) ==
    IF format = <<>> THEN [err |-> FALSE, vals |-> vals]
    ELSE IF Head(format) = "%d"
    THEN LET r == ScanUint16(s) IN
         IF r.ok THEN DoScanf(Tail(format), r.rest, Append(vals, r.val))
         ELSE [err |-> TRUE, vals |-> vals]
    ELSE IF s # <<>> /\ Head(s) = Head(format)
    THEN DoScanf(Tail(format), Tail(s), vals)
    ELSE [err |-> TRUE, vals |-> vals]

Sscanf(s) == DoScanf(GeometryFormat, s, <<>>)

\* The body of Set's loop for one field: the entry appended, and whether
\* "Bad geometry" was logged.
SetField(field) ==
    IF field = <<>> THEN [geom |-> NilGeometry, bad |-> FALSE]
    ELSE LET r == Sscanf(field) IN
         IF r.err THEN [geom |-> DefaultGeometry, bad |-> TRUE]
         ELSE [geom |-> MkGeometry(r.vals[1], r.vals[2], r.vals[3], r.vals[4]),
               bad |-> FALSE]

\* Fault seeded for sensitivity: Set appends to a value that is already set.
GeometriesSet_Appends(g, value) ==
    IF value = <<>> THEN [g |-> g, err |-> "nil", logged |-> <<>>]
    ELSE LET fields == Split(value)
             got == [i \in 1..Len(fields) |-> SetField(fields[i])]
         IN  [g |-> g \o [i \in 1..Len(fields) |-> got[i].geom],
              err |-> "nil",
              logged |-> SelectSeq(fields, LAMBDA f : SetField(f).bad)]

\* (g *Geometries) Set(value): the new value of *g, the error returned and
\* the fields logged as bad, in order.
GeometriesSet(g, value) ==
    IF Len(g) > 0
    THEN [g |-> g, err |-> "geometries flag already set", logged |-> <<>>]
    ELSE IF value = <<>> THEN [g |-> g, err |-> "nil", logged |-> <<>>]
    ELSE LET fields == Split(value)
             got == [i \in 1..Len(fields) |-> SetField(fields[i])]
         IN  [g |-> g \o [i \in 1..Len(fields) |-> got[i].geom],
              err |-> "nil",
              logged |-> SelectSeq(fields, LAMBDA f : SetField(f).bad)]

\* flag.Parse meets a --geometries argument and calls Set; an error of Set
\* makes the flag package print it and exit.
FlagGeometries ==
    /\ barPc = "flags"
    /\ \E value \in GeomValues :
         LET r == GeometriesSet(geometries, value) IN
         /\ geometries' = r.g
         /\ lastSet' = [value |-> value, before |-> geometries,
                        err |-> r.err, logged |-> r.logged]
         /\ barPc' = IF r.err = "nil" THEN "flags" ELSE "exit"
    /\ UNCHANGED <<position, heads, Windows, Geometries, Fonts, genFailed,
                   recreated, painted>>
    /\ UNCHANGED scanVars
    /\ UNCHANGED mainVars
    /\ UNCHANGED fontVars

\* flag.Parse meets --bottom.
FlagBottom ==
    /\ barPc = "flags"
    /\ position = "TOP"
    /\ position' = "BOTTOM"
    /\ UNCHANGED <<barPc, geometries, heads, Windows, Geometries, Fonts, lastSet,
                   genFailed, recreated, painted>>
    /\ UNCHANGED scanVars
    /\ UNCHANGED mainVars
    /\ UNCHANGED fontVars

----------------------------------------------------------------------------
\* gobar.go: the Bar.  A monitor (xinerama head) is its rectangle; a window
\* is the rectangle it was created with, and `mon`, the place in Bar.heads
\* of the monitor it was created for (0 for the first), which the program
\* does not store.

MaxHeads == 3

\* Monitors side by side, left to right.
Monitor(i) == [X |-> (i - 1) * 1920, Y |-> 0, Width |-> 1920, Height |-> 1080]
HeadsOf(n) == [i \in 1..n |-> Monitor(i)]
HeadSets == {HeadsOf(n) : n \in 1..MaxHeads}

\* Fault seeded for sensitivity: a monitor beyond the list uses the first
\* geometry of the list and not the last.
RECURSIVE CreateFrom_FirstBeyond(_, _, _, _, _, _, _)
CreateFrom_FirstBeyond(i, hs, geoms, place, fails, w, g) ==
    IF i > Len(hs) THEN [Windows |-> w, Geometries |-> g]
    ELSE LET beyond == i > Len(geoms)
             geometry == IF beyond THEN geoms[1] ELSE geoms[i]
         IN
         IF geometry.nil
         THEN IF beyond THEN [Windows |-> w, Geometries |-> g]
              ELSE CreateFrom_FirstBeyond(i + 1, hs, geoms, place, fails, w, g)
         ELSE IF i \in fails
         THEN CreateFrom_FirstBeyond(i + 1, hs, geoms, place, fails, w, g)
         ELSE LET width == IF geometry.Width = 0 THEN hs[i].Width
                           ELSE geometry.Width
                  height == IF geometry.Height = 0 THEN hs[i].Height
                            ELSE geometry.Height
                  y == IF place = "BOTTOM" THEN hs[i].Height - height - geometry.Y
                       ELSE geometry.Y
              IN CreateFrom_FirstBeyond(i + 1, hs, geoms, place, fails,
                    Append(w, [mon |-> i - 1, X |-> geometry.X + hs[i].X,
                               Y |-> y + hs[i].Y,
                               Width |-> width, Height |-> height]),
                    Append(g, MkGeometry(width % 65536, height % 65536,
                                         geometry.X, y % 65536)))

\* Fault seeded for sensitivity: a monitor whose window xwindow.Generate
\* could not make still gets its entry in b.Geometries.
RECURSIVE CreateFrom_GeometryOnFailure(_, _, _, _, _, _, _)
CreateFrom_GeometryOnFailure(i, hs, geoms, place, fails, w, g) ==
    IF i > Len(hs) THEN [Windows |-> w, Geometries |-> g]
    ELSE LET beyond == i > Len(geoms)
             geometry == IF beyond THEN geoms[Len(geoms)] ELSE geoms[i]
         IN
         IF geometry.nil
         THEN IF beyond THEN [Windows |-> w, Geometries |-> g]
              ELSE CreateFrom_GeometryOnFailure(i + 1, hs, geoms, place, fails,
                                                w, g)
         ELSE LET width == IF geometry.Width = 0 THEN hs[i].Width
                           ELSE geometry.Width
                  height == IF geometry.Height = 0 THEN hs[i].Height
                            ELSE geometry.Height
                  y == IF place = "BOTTOM" THEN hs[i].Height - height - geometry.Y
                       ELSE geometry.Y
                  gg == Append(g, MkGeometry(width % 65536, height % 65536,
                                             geometry.X, y % 65536))
              IN IF i \in fails
                 THEN CreateFrom_GeometryOnFailure(i + 1, hs, geoms, place,
                                                   fails, w, gg)
                 ELSE CreateFrom_GeometryOnFailure(i + 1, hs, geoms, place,
                        fails,
                        Append(w, [mon |-> i - 1, X |-> geometry.X + hs[i].X,
                                   Y |-> y + hs[i].Y,
                                   Width |-> width, Height |-> height]),
                        gg)

\* The loop of Bar.create from monitor i on: w and g are b.Windows and
\* b.Geometries so far, fails the monitors for which xwindow.Generate returns
\* an error (at most one in a call of create).  The struts and the other
\* window properties are left out.
RECURSIVE CreateFrom(_, _, _, _, _, _, _)
CreateFrom(i, hs, geoms, place, fails, w, g) ==
    IF i > Len(hs) THEN [Windows |-> w, Geometries |-> g]
    ELSE LET beyond == i > Len(geoms)
             geometry == IF beyond THEN geoms[Len(geoms)] ELSE geoms[i]
         IN
         IF geometry.nil
         THEN IF beyond THEN [Windows |-> w, Geometries |-> g]
              ELSE CreateFrom(i + 1, hs, geoms, place, fails, w, g)
         ELSE IF i \in fails
         THEN CreateFrom(i + 1, hs, geoms, place, fails, w, g)
         ELSE LET width == IF geometry.Width = 0 THEN hs[i].Width
                           ELSE geometry.Width
                  height == IF geometry.Height = 0 THEN hs[i].Height
                            ELSE geometry.Height
                  y == IF place = "BOTTOM" THEN hs[i].Height - height - geometry.Y
                       ELSE geometry.Y
              IN CreateFrom(i + 1, hs, geoms, place, fails,
                    Append(w, [mon |-> i - 1, X |-> geometry.X + hs[i].X,
                               Y |-> y + hs[i].Y,
                               Width |-> width, Height |-> height]),
                    Append(g, MkGeometry(width % 65536, height % 65536,
                                         geometry.X, y % 65536)))

\* (b *Bar) create(geometries, position), for a bar whose heads are hs.
BarCreate(hs, geoms, place, fails, w, g) ==
    CreateFrom(1, hs, IF Len(geoms) = 0 THEN <<DefaultGeometry>> ELSE geoms,
               place, fails, w, g)

\* Which calls of xwindow.Generate return an error: none, or the one for a
\* single monitor.
GenerateFails(hs) == {{}} \cup {{i} : i \in 1..Len(hs)}

\* main hands NewBar the fonts of the --fonts flag, or the one fallback font
\* when the flag gave none: at least one, at most MaxFonts.
MaxFonts == 2

\* NewBar, called by main when the flags are parsed.
NewBar ==
    /\ barPc = "flags"
    /\ barPc' = "run"
    /\ \E hs \in HeadSets : \E fails \in GenerateFails(hs) :
         LET b == BarCreate(hs, geometries, position, fails, <<>>, <<>>) IN
         /\ heads' = hs
         /\ Windows' = b.Windows
         /\ Geometries' = b.Geometries
         /\ genFailed' = fails
    /\ \E n \in 1..MaxFonts : Fonts' = [i \in 1..n |-> i]
    /\ UNCHANGED <<geometries, position, lastSet, recreated, painted>>
    /\ UNCHANGED scanVars
    /\ UNCHANGED mainVars
    /\ UNCHANGED fontVars

\* The ConfigureNotify handler NewBar connects, when the monitors differ
\* from bar.heads: destroy, then create with the geometries NewBar was given.
ConfigureNotify ==
    /\ barPc = "run"
    /\ \E hs \in HeadSets \ {heads} : \E fails \in GenerateFails(hs) :
         LET b == BarCreate(hs, geometries, position, fails, <<>>, <<>>) IN
         /\ heads' = hs
         /\ Windows' = b.Windows
         /\ Geometries' = b.Geometries
         /\ genFailed' = fails
    /\ recreated' = TRUE
    /\ painted' = <<>>
    /\ UNCHANGED <<barPc, geometries, position, Fonts, lastSet>>
    /\ UNCHANGED scanVars
    /\ UNCHANGED mainVars
    /\ UNCHANGED fontVars

\* int(screen) < n for a uint screen: a screen of 2^63 or more is negative
\* as an int.
IntLess(u, n) ==
    \/ u[1] >= 128 * 256
    \/ u[1] = 0 /\ u[2] = 0 /\ u[3] = 0 /\ u[4] < n

Contains(slice, item) == \E j \in 1..Len(slice) : slice[j] = item

\* u > v for two uint.
UintGreater(u, v) ==
    \E k \in 1..4 : u[k] > v[k] /\ \A j \in 1..(k - 1) : u[j] = v[j]

\* The font Draw uses for a piece on a bar of nf fonts: `piece.Font >
\* uint(len(b.Fonts))-1` replaces the number by 0.
DrawFont(font, nf) ==
    LET last == IF nf = 0 THEN <<Limb - 1, Limb - 1, Limb - 1, Limb - 1>>
                ELSE U64(nf - 1)
    IN IF UintGreater(font, last) THEN U64(0) ELSE font

\* The `screens` Draw computes for a piece on a bar of n windows.
DrawScreens(isNil, Screens, NotScreens, n) ==
    IF isNil
    THEN SelectSeq([k \in 1..n |-> U64(k - 1)],
                   LAMBDA u : ~Contains(NotScreens, u))
    ELSE SelectSeq(Screens,
                   LAMBDA u : IntLess(u, n) /\ ~Contains(NotScreens, u))

\* The lines whose pieces are drawn: without a screens list, with one, with
\* a negative number, with a list and a negative number, and with font
\* numbers.
DrawLines ==
    {
      <<"t">>,
      <<"{", "S", "0", "t">>,
      <<"{", "S", "1", "t">>,
      <<"{", "S", "0", ",", "2", "t">>,
      <<"{", "S", "-", "1", "t">>,
      <<"{", "S", "1", ",", "-", "1", "t">>,
      <<"{", "F", "1", "t">>,
      <<"{", "F", "-", "1", "t">>
    }

\* What Scan returns for each of them, as main's goroutine sends it.
Scanned == {[line |-> l, run |-> ScanRun(l)] : l \in DrawLines}

\* (b *Bar) Draw(text) with the pieces Scan returned for a line, as main's
\* loop calls it.  Every bar is taken to be wide enough for the text, so
\* that the sub-image of a piece exists.  For each piece: the windows it is
\* painted on, as places in b.Windows, and the font used, as a place in
\* b.Fonts; an index outside b.Windows or b.Fonts panics.
DrawPieces(s, n, nf) ==
    [i \in 1..Len(s.result) |->
        LET p == s.heap[s.result[i]]
            on == DrawScreens(p.Screens.arr = 0, SliceVal(s.arrays, p.Screens),
                              SliceVal(s.arrays, p.NotScreens), n)
            font == DrawFont(p.Font, nf)
        IN [Text |-> p.Text,
            Font |-> p.Font,
            Screens |-> SliceVal(s.arrays, p.Screens),
            NotScreens |-> SliceVal(s.arrays, p.NotScreens),
            font |-> font,
            on |-> on,
            panic |-> \/ ~(IsSmall(font) /\ SmallVal(font) < nf)
                      \/ \E k \in 1..Len(on) :
                            ~(IsSmall(on[k]) /\ SmallVal(on[k]) < n)]]

Draw ==
    /\ barPc = "run"
    /\ \E d \in Scanned :
         LET s == d.run IN
         /\ s.pc = "done"
         /\ LET ps == DrawPieces(s, Len(Windows), Len(Fonts)) IN
            /\ painted' = ps
            /\ barPc' = IF \E i \in 1..Len(ps) : ps[i].panic THEN "panic" ELSE "run"
    /\ UNCHANGED <<geometries, position, heads, Windows, Geometries, Fonts,
                   lastSet, genFailed, recreated>>
    /\ UNCHANGED scanVars
    /\ UNCHANGED mainVars
    /\ UNCHANGED fontVars

\* main, from flag.Parse on: the flags, the bar, then monitor changes and
\* lines drawn in any order.  No call of Scan is in progress in the state.
InitBar ==
    /\ line = <<>>
    /\ pos = 0 /\ stoken = <<>> /\ serr = "nil"
    /\ heap = <<ZeroPiece>> /\ arrays = <<>>
    /\ text = <<1>> /\ currentText = 1
    /\ screening = FALSE /\ escaping = FALSE /\ bracketing = 0
    /\ pc = "scan" /\ result = <<>>
    /\ prev = [heap |-> <<ZeroPiece>>, arrays |-> <<>>, text |-> <<1>>,
               currentText |-> 1, screening |-> FALSE, escaping |-> FALSE,
               bracketing |-> 0, pos |-> 0, stack |-> <<>>]
    /\ op = NoOp
    /\ scopeStack = <<>>
    /\ srcPos = << <<>> >>
    /\ calls = <<>>
    /\ NoBar
    /\ NoFonts

NextBar ==
    \/ FlagGeometries
    \/ FlagBottom
    \/ NewBar
    \/ ConfigureNotify
    \/ Draw

SpecBar == InitBar /\ [][NextBar]_vars

----------------------------------------------------------------------------
\* main's goroutines, from the return of NewBar on: the main goroutine in its
\* select loop, the goroutine xevent.MainPing starts, and the goroutine that
\* reads standard input.  The three channels are unbuffered: a send and its
\* receive are one step of both goroutines.  MainPing is code of xgbutil; its
\* goroutine is modelled by what MainPing documents: before it takes an event
\* from the queue it sends on pingBefore, then it runs the callbacks of the
\* event, then it sends on pingAfter; when the connection is quitting it
\* sends on pingQuit and ends.

\* The lines standard input gives: plain text, and text for one screen.
\* Their pieces do not depend on what the parser read before.
MainLines == { <<"t">>, <<"{", "S", "1", "t">> }

Running == barPc = "run" /\ mpc # "returned"

\* reader.ReadString('\n') in the stdin goroutine: a line, which is scanned
\* and whose pieces are then sent, or an error, at the end of the input and
\* from then on.
ReaderRead ==
    /\ Running
    /\ rpc = "read"
    /\ \/ /\ ~eof
          /\ \E d \in Scanned :
               /\ d.line \in MainLines
               /\ msg' = <<d.run>>
          /\ rpc' = "send"
          /\ eof' = eof
       \/ /\ eof' = TRUE
          /\ rpc' = "log"
          /\ msg' = msg
    /\ UNCHANGED <<mpc, xpc, drawing>>
    /\ UNCHANGED barVars
    /\ UNCHANGED scanVars
    /\ UNCHANGED fontVars

\* `log.Printf("Error reading stdin. Got ...")`, and the loop goes on: no
\* statement leaves the `for`, so the deferred close(stdin) has no step.
ReaderLog ==
    /\ Running
    /\ rpc = "log"
    /\ rpc' = "read"
    /\ UNCHANGED <<mpc, xpc, eof, msg, drawing>>
    /\ UNCHANGED barVars
    /\ UNCHANGED scanVars
    /\ UNCHANGED fontVars

\* Fault seeded for sensitivity: main does not wait for pingAfter.
MainPingBefore_NoWait ==
    /\ Running
    /\ mpc = "select" /\ xpc = "before"
    /\ mpc' = "select" /\ xpc' = "callback"
    /\ UNCHANGED <<rpc, eof, msg, drawing>>
    /\ UNCHANGED barVars
    /\ UNCHANGED scanVars
    /\ UNCHANGED fontVars

\* `case <-pingBefore:` of main's select, with the send of the X goroutine.
MainPingBefore ==
    /\ Running
    /\ mpc = "select" /\ xpc = "before"
    /\ mpc' = "pinged" /\ xpc' = "callback"
    /\ UNCHANGED <<rpc, eof, msg, drawing>>
    /\ UNCHANGED barVars
    /\ UNCHANGED scanVars
    /\ UNCHANGED fontVars

\* `<-pingAfter` in that case, with the send of the X goroutine.
MainPingAfter ==
    /\ Running
    /\ mpc = "pinged" /\ xpc = "after"
    /\ mpc' = "select" /\ xpc' = "read"
    /\ UNCHANGED <<rpc, eof, msg, drawing>>
    /\ UNCHANGED barVars
    /\ UNCHANGED scanVars
    /\ UNCHANGED fontVars

\* `case text := <-stdin:` with the send of the stdin goroutine; Draw begins:
\* imgs, xsl and xsr get the length of b.Windows.
MainText ==
    /\ Running
    /\ mpc = "select" /\ rpc = "send"
    /\ mpc' = "draw" /\ rpc' = "read"
    /\ drawing' = <<[run |-> msg[1], Windows |-> Windows]>>
    /\ msg' = <<>>
    /\ UNCHANGED <<xpc, eof>>
    /\ UNCHANGED barVars
    /\ UNCHANGED scanVars
    /\ UNCHANGED fontVars

\* The rest of Draw: the pieces are painted and every img is put on its
\* window, b.Windows[i] for every i of imgs.
MainDraw ==
    /\ Running
    /\ mpc = "draw"
    /\ LET d == drawing[1]
           ps == DrawPieces(d.run, Len(d.Windows), Len(Fonts))
       IN /\ painted' = ps
          /\ barPc' = IF \/ \E i \in 1..Len(ps) : ps[i].panic
                         \/ Len(Windows) < Len(d.Windows)
                      THEN "panic" ELSE "run"
    /\ mpc' = "select"
    /\ drawing' = <<>>
    /\ UNCHANGED <<xpc, rpc, eof, msg>>
    /\ UNCHANGED <<geometries, position, heads, Windows, Geometries, Fonts,
                   lastSet, genFailed, recreated>>
    /\ UNCHANGED scanVars
    /\ UNCHANGED fontVars

\* `case <-pingQuit: return`, with the send of the X goroutine.
MainQuit ==
    /\ Running
    /\ mpc = "select" /\ xpc = "quit"
    /\ mpc' = "returned" /\ xpc' = "done"
    /\ UNCHANGED <<rpc, eof, msg, drawing>>
    /\ UNCHANGED barVars
    /\ UNCHANGED scanVars
    /\ UNCHANGED fontVars

\* The X goroutine reads: an event is there, or the connection is quitting.
XRead ==
    /\ Running
    /\ xpc = "read"
    /\ xpc' \in {"before", "quit"}
    /\ UNCHANGED <<mpc, rpc, eof, msg, drawing>>
    /\ UNCHANGED barVars
    /\ UNCHANGED scanVars
    /\ UNCHANGED fontVars

\* The callbacks of an event that changes no monitor: another event, the
\* same heads, or an error of xinerama.PhysicalHeads.
XHandler ==
    /\ Running
    /\ xpc = "callback"
    /\ xpc' = "after"
    /\ UNCHANGED <<mpc, rpc, eof, msg, drawing>>
    /\ UNCHANGED barVars
    /\ UNCHANGED scanVars
    /\ UNCHANGED fontVars

\* The ConfigureNotify handler when the monitors differ from bar.heads:
\* bar.destroy() and `bar.heads = heads`.
XDestroy ==
    /\ Running
    /\ xpc = "callback"
    /\ \E hs \in HeadSets \ {heads} : heads' = hs
    /\ Windows' = <<>>
    /\ Geometries' = <<>>
    /\ xpc' = "destroyed"
    /\ UNCHANGED <<mpc, rpc, eof, msg, drawing>>
    /\ UNCHANGED <<barPc, geometries, position, Fonts, lastSet, genFailed,
                   recreated, painted>>
    /\ UNCHANGED scanVars
    /\ UNCHANGED fontVars

\* The handler goes on: bar.create(geometries, position).
XCreate ==
    /\ Running
    /\ xpc = "destroyed"
    /\ \E fails \in GenerateFails(heads) :
         LET b == BarCreate(heads, geometries, position, fails, Windows,
                            Geometries) IN
         /\ Windows' = b.Windows
         /\ Geometries' = b.Geometries
         /\ genFailed' = fails
    /\ recreated' = TRUE
    /\ painted' = <<>>
    /\ xpc' = "after"
    /\ UNCHANGED <<mpc, rpc, eof, msg, drawing>>
    /\ UNCHANGED <<barPc, geometries, position, heads, Fonts, lastSet>>
    /\ UNCHANGED scanVars
    /\ UNCHANGED fontVars

ReaderNext == ReaderRead \/ ReaderLog
MainNext == MainPingBefore \/ MainPingAfter \/ MainText \/ MainDraw \/ MainQuit
XNext == XRead \/ XHandler \/ XDestroy \/ XCreate

NextMain ==
    \/ NewBar
    \/ ReaderNext
    \/ MainNext
    \/ XNext

\* A goroutine that can run does run: the stdin goroutine and the main
\* goroutine take their steps.  When the X goroutine's read returns is up to
\* the X server.
SpecMain ==
    /\ InitBar
    /\ [][NextMain]_vars
    /\ WF_vars(ReaderNext)
    /\ WF_vars(MainNext)

----------------------------------------------------------------------------
\* ParseFonts, of the gobar.go that takes font specs `path:size`.  A string
\* is a sequence of characters; createFont and findFont are the two
\* functions ParseFonts is handed.

\* strings.Split(s, ":").
RECURSIVE SplitColon(_)
SplitColon(s) ==
    IF \A i \in 1..Len(s) : s[i] # ":" THEN <<s>>
    ELSE LET i == CHOOSE i \in 1..Len(s) :
                      s[i] = ":" /\ \A j \in 1..(i - 1) : s[j] # ":"
         IN <<SubSeq(s, 1, i - 1)>> \o SplitColon(SubSeq(s, i + 1, Len(s)))

\* strconv.ParseFloat(s, 32) for a string of digits and letters `x`: the
\* number a non-empty run of digits stands for, a syntax error otherwise.
ParseFloat(s) ==
    IF s # <<>> /\ \A i \in 1..Len(s) : s[i] \in Digits
    THEN [val |-> DecValue(s, 0), ok |-> TRUE]
    ELSE [val |-> 0, ok |-> FALSE]

\* The size the loop of ParseFonts gives createFont for one spec.
SpecFontSize(fontSpecSplit) ==
    IF Len(fontSpecSplit) < 2 THEN 12
    ELSE LET possibleFontSize == ParseFloat(fontSpecSplit[2]) IN
         IF possibleFontSize.ok THEN possibleFontSize.val ELSE 12

\* Fault seeded for sensitivity: fontSize keeps the last size that parsed.
RECURSIVE ParseFontsLoop_KeepsSize(_, _, _, _)
ParseFontsLoop_KeepsSize(specs, good, fonts, fontSize) ==
    IF specs = <<>> THEN [fonts |-> fonts, fontSize |-> fontSize]
    ELSE LET fontSpecSplit == SplitColon(Head(specs))
             fontPath == fontSpecSplit[1]
             possible == IF Len(fontSpecSplit) < 2 THEN [ok |-> FALSE]
                         ELSE ParseFloat(fontSpecSplit[2])
             size == IF possible.ok THEN possible.val ELSE fontSize
         IN ParseFontsLoop_KeepsSize(Tail(specs), good,
                IF fontPath \in good
                THEN Append(fonts, [Path |-> fontPath, Size |-> size])
                ELSE fonts,
                size)

\* The loop of ParseFonts over the specs left: fonts so far, and fontSize.
RECURSIVE ParseFontsLoop(_, _, _, _)
ParseFontsLoop(specs, good, fonts, fontSize) ==
    IF specs = <<>> THEN [fonts |-> fonts, fontSize |-> fontSize]
    ELSE LET fontSpecSplit == SplitColon(Head(specs))
             fontPath == fontSpecSplit[1]
             size == SpecFontSize(fontSpecSplit)
         IN ParseFontsLoop(Tail(specs), good,
                IF fontPath \in good
                THEN Append(fonts, [Path |-> fontPath, Size |-> size])
                ELSE fonts,
                size)

\* ParseFonts(fontSpecs, createFont, findFont): createFont returns a font
\* for the paths of good, found is what findFont returns.
ParseFonts(specs, good, found) ==
    LET l == ParseFontsLoop(specs, good, <<>>, 12) IN
    IF Len(l.fonts) # 0 THEN [fonts |-> l.fonts, err |-> "nil"]
    ELSE IF found = <<>> THEN [fonts |-> l.fonts, err |-> "findFont"]
    ELSE IF found[1] \notin good THEN [fonts |-> l.fonts, err |-> "createFont"]
    ELSE [fonts |-> <<[Path |-> found[1], Size |-> l.fontSize]>>,
          err |-> "nil"]

\* The specs of a call: at most MaxSpecs of them.
MaxSpecs == 2

FontPaths == { <<"a">>, <<"b">> }
FallbackPaths == { <<"f">>, <<"a">> }
FontSizes ==
    { <<>>, <<":">>, <<":", "9">>, <<":", "1", "2">>, <<":", "x">>,
      <<":", "1", "x">>, <<":", "9", ":", "1">> }
FontSpecs == {p \o s : p \in FontPaths, s \in FontSizes} \cup { <<>> }

RECURSIVE SpecLists(_)
SpecLists(n) ==
    IF n = 0 THEN { <<>> }
    ELSE LET S == SpecLists(n - 1) IN
         S \cup {Append(l, s) : l \in S, s \in FontSpecs}

\* A call of ParseFonts with any specs, any createFont and any findFont.
InitFonts ==
    /\ line = <<>>
    /\ pos = 0 /\ stoken = <<>> /\ serr = "nil"
    /\ heap = <<ZeroPiece>> /\ arrays = <<>>
    /\ text = <<1>> /\ currentText = 1
    /\ screening = FALSE /\ escaping = FALSE /\ bracketing = 0
    /\ pc = "scan" /\ result = <<>>
    /\ prev = [heap |-> <<ZeroPiece>>, arrays |-> <<>>, text |-> <<1>>,
               currentText |-> 1, screening |-> FALSE, escaping |-> FALSE,
               bracketing |-> 0, pos |-> 0, stack |-> <<>>]
    /\ op = NoOp
    /\ scopeStack = <<>>
    /\ srcPos = << <<>> >>
    /\ calls = <<>>
    /\ NoBar
    /\ fontSpecs \in SpecLists(MaxSpecs)
    /\ creatable \in SUBSET (FontPaths \cup FallbackPaths)
    /\ fontFound \in { <<>> } \cup {<<p>> : p \in FallbackPaths}
    /\ parsed = <<>>

CallParseFonts ==
    /\ parsed = <<>>
    /\ parsed' = <<ParseFonts(fontSpecs, creatable, fontFound)>>
    /\ UNCHANGED <<fontSpecs, creatable, fontFound>>
    /\ UNCHANGED scanVars
    /\ UNCHANGED barVars
    /\ UNCHANGED mainVars

NextFonts == CallParseFonts

SpecFonts == InitFonts /\ [][NextFonts]_vars

----------------------------------------------------------------------------
\* Properties.  They read the state after a case of the loop has run (op,
\* the program variables) against the state before it (prev).

Pieces == 1..Len(heap)
PrevPieces == 1..Len(prev.heap)
NowAttrs(p) == Attrs(heap, arrays, p)
PrevAttrs(p) == Attrs(prev.heap, prev.arrays, p)
LeftAttrs == PrevAttrs(prev.currentText)
DefaultAttrs == Attrs(<<ZeroPiece>>, <<>>, 1)
ArgOps == {"F", "S", "CF", "CB"}
OpenOps == {"F", "S", "CF", "CB", "AR"}
IndexIn(t, x) == CHOOSE i \in 1..Len(t) : t[i] = x
U(n) == <<0, 0, 0, n>>
Str_test1 == <<"t", "e", "s", "t", "1">>
Str_test2 == <<"t", "e", "s", "t", "2">>

\* A directive whose argument, a token the look-ahead delivered, failed to parse.
BadArg == op.name \in ArgOps /\ op.argTok /\ ~op.argOk

\* The history is sound: every byte of a piece's text is the line's byte at
\* the position recorded for it.
TextFromLine ==
    \A p \in Pieces :
        /\ Len(srcPos[p]) = Len(heap[p].Text)
        /\ \A k \in 1..Len(srcPos[p]) : heap[p].Text[k] = line[srcPos[p][k]]

\* C1: for every input line Scan returns a piece list and never aborts: no
\* panic is reachable.
C1_NeverAborts == pc # "panic"

\* C2: the token after an unescaped backslash, whatever it is, is appended
\* verbatim to the current piece's text, triggers no directive, bracket, comma
\* or escape handling, and escaping is cleared.
C2_EscapedTokenVerbatim ==
    (prev.escaping /\ op.name \notin {"init", "return"}) =>
        /\ op.name = "text"
        /\ ~escaping
        /\ currentText = prev.currentText
        /\ heap[currentText].Text = prev.heap[currentText].Text \o op.tok

\* C3: when the argument token of {F, {S, {CF or {CB fails to parse, no scope
\* is opened: no new piece, the current piece stays current, and no attribute
\* of any piece changes.
C3_BadArgOpensNoScope ==
    BadArg =>
        /\ Len(heap) = Len(prev.heap)
        /\ currentText = prev.currentText
        /\ \A p \in PrevPieces : NowAttrs(p) = PrevAttrs(p)

\* C4: a malformed directive argument never drops input text: the prefix and
\* the argument token are appended, in that order and once, to the text of the
\* piece that was current, they are exactly the bytes read, the loop goes on
\* with the byte after them, no piece ever loses text, and the loop ends only
\* at the end of the line.
C4_BadArgKeepsText ==
    /\ BadArg =>
          /\ heap[prev.currentText].Text =
                 prev.heap[prev.currentText].Text \o op.tok \o op.arg
          /\ op.tok \o op.arg = SubSeq(line, prev.pos + 1, pos)
          /\ pc = "scan"
    /\ \A p \in PrevPieces :
          SubSeq(heap[p].Text, 1, Len(prev.heap[p].Text)) = prev.heap[p].Text
    /\ pc = "done" => (pos = Len(line) \/ line[pos + 1] = "\n")

W4_BadArgKeepsText ==
    /\ BadArg /\ op.name = "CF" /\ op.arg = <<"t">>
    /\ prev.heap[prev.currentText].Text # <<>>

\* C5: the piece that becomes current when a scope's closing } is processed
\* has exactly the attributes the current piece had immediately before the
\* scope's opening directive, at any nesting depth.
C5_CloseRestoresAttrs ==
    op.name = "}scope" =>
        /\ Len(prev.stack) > 0
        /\ NowAttrs(currentText) = prev.stack[Len(prev.stack)]

W5_CloseRestoresAttrs ==
    /\ op.name = "}scope"
    /\ Len(prev.stack) = 2
    /\ NowAttrs(currentText).Font = U(1)
    /\ LeftAttrs.Font = U(2)

\* C6: opening a scope changes only what its directive sets: the new piece
\* has empty text, its origin is the piece being left, and every other
\* attribute equals that of the piece being left, so nested directives
\* accumulate.
C6_OpenChangesOnlyDirective ==
    (op.name \in OpenOps /\ pc # "panic") =>
        LET old == LeftAttrs
            new == NowAttrs(currentText)
        IN /\ Len(heap) = Len(prev.heap) + 1
           /\ currentText = Len(heap)
           /\ heap[currentText].Text = <<>>
           /\ heap[currentText].Origin = prev.currentText
           /\ op.name = "F" => new = [old EXCEPT !.Font = new.Font]
           /\ op.name = "CF" => new = [old EXCEPT !.Foreground = new.Foreground]
           /\ op.name = "CB" => new = [old EXCEPT !.Background = new.Background]
           /\ op.name = "AR" => new = [old EXCEPT !.Align = "RIGHT"]
           /\ op.name = "S" =>
                 \/ /\ Len(new.Screens) = Len(old.Screens) + 1
                    /\ new = [old EXCEPT !.Screens =
                                 Append(old.Screens, new.Screens[Len(new.Screens)])]
                 \/ /\ Len(new.NotScreens) = Len(old.NotScreens) + 1
                    /\ new = [old EXCEPT !.NotScreens =
                                 Append(old.NotScreens, new.NotScreens[Len(new.NotScreens)])]

\* {F1{S2 gives font 1 and screens [2].
W6_OpenChangesOnlyDirective ==
    /\ op.name = "S"
    /\ NowAttrs(currentText).Font = U(1)
    /\ NowAttrs(currentText).Screens = <<U(2)>>
    /\ LeftAttrs.Font = U(1)

\* The line up to its first newline.
RECURSIVE LineBody(_)
LineBody(l) ==
    IF l = <<>> \/ Head(l) = "\n" THEN <<>> ELSE <<Head(l)>> \o LineBody(Tail(l))

Has(l, c) == \E i \in 1..Len(l) : l[i] = c

OnePlainPiece(s) ==
    /\ Len(result) = 1
    /\ heap[result[1]].Text = s
    /\ NowAttrs(result[1]) = DefaultAttrs

\* C7 as stated: for all inputs with no directives, Scan returns exactly one
\* piece whose text equals the input and whose attributes are the defaults.
C7_Original ==
    (pc = "done" /\ ~Has(line, "{") /\ ~Has(line, "\n")) => OnePlainPiece(line)

\* C7, amended: for every non-empty input (up to its first newline) with no
\* `{` and no backslash, Scan returns exactly one piece whose text equals the
\* input and whose attributes are the defaults; for the empty input it
\* returns no piece.
C7_PlainLine ==
    LET body == LineBody(line) IN
    (pc = "done" /\ ~Has(body, "{") /\ ~Has(body, "\\")) =>
        IF body = <<>> THEN result = <<>> ELSE OnePlainPiece(body)

W7_PlainLine ==
    /\ pc = "done" /\ ~Has(line, "{") /\ ~Has(line, "\\")
    /\ Has(line, ",") /\ Has(line, "}") /\ Has(line, "1")
    /\ OnePlainPiece(line)

\* C8: every returned piece has non-empty text: the pieces whose text is empty
\* at the end of the scan are dropped and the others keep their relative order.
C8_NoEmptyReturned ==
    pc = "done" =>
        /\ \A i \in 1..Len(result) : heap[result[i]].Text # <<>>
        /\ {result[i] : i \in 1..Len(result)} =
               {text[i] : i \in {j \in 1..Len(text) : heap[text[j]].Text # <<>>}}
        /\ \A i, j \in 1..Len(result) :
               i < j => IndexIn(text, result[i]) < IndexIn(text, result[j])

W8_NoEmptyReturned ==
    /\ pc = "done"
    /\ Len(result) >= 2
    /\ \E i \in 2..(Len(text) - 1) : heap[text[i]].Text = <<>>

\* C9: a piece created while the piece being left is right-aligned is
\* inserted at the list position of that piece, which shifts it and all after
\* it one slot later; otherwise it is appended.  So within one right-aligned
\* scope a later-created piece precedes every earlier-created one.
C9_RightInsertsBefore ==
    /\ op.name \in (OpenOps \cup {"}scope"}) =>
          /\ Len(text) = Len(prev.text) + 1
          /\ IF LeftAttrs.Align = "RIGHT"
             THEN LET i == IndexIn(prev.text, prev.currentText) IN
                  /\ text[i] = currentText
                  /\ \A j \in 1..Len(prev.text) :
                         text[IF j < i THEN j ELSE j + 1] = prev.text[j]
             ELSE /\ text[Len(text)] = currentText
                  /\ \A j \in 1..Len(prev.text) : text[j] = prev.text[j]
    /\ \A p, q \in Pieces :
          (p < q /\ \A k \in p..q : heap[k].Align = "RIGHT") =>
              /\ IndexIn(text, q) < IndexIn(text, p)
              /\ (pc = "done" /\ heap[p].Text # <<>> /\ heap[q].Text # <<>>) =>
                     IndexIn(result, q) < IndexIn(result, p)

\* {ARtest1{F1test2}} gives [test2, test1].
W9_RightInsertsBefore ==
    /\ pc = "done"
    /\ Len(result) = 2
    /\ heap[result[1]].Text = Str_test2 /\ NowAttrs(result[1]).Font = U(1)
    /\ heap[result[2]].Text = Str_test1 /\ NowAttrs(result[2]).Align = "RIGHT"
    /\ result[1] > result[2]

\* C10: for a line with no unescaped {AR (no piece is right-aligned) the
\* returned pieces are in source order: all the text of a returned piece comes
\* from line positions before all the text of the next one.
C10_SourceOrder ==
    /\ TextFromLine
    /\ (pc = "done" /\ \A p \in Pieces : heap[p].Align = "LEFT") =>
          \A i \in 1..(Len(result) - 1) :
              \A a \in 1..Len(srcPos[result[i]]), b \in 1..Len(srcPos[result[i + 1]]) :
                  srcPos[result[i]][a] < srcPos[result[i + 1]][b]

W10_SourceOrder ==
    /\ pc = "done"
    /\ \A p \in Pieces : heap[p].Align = "LEFT"
    /\ Len(result) = 3
    /\ Len(heap) > 3

\* The nesting depth of the braces after each prefix of the line; a directive
\* prefix counts as its opening brace.
RECURSIVE BraceDepth(_)
BraceDepth(l) ==
    IF l = <<>> THEN 0
    ELSE LET d == BraceDepth(SubSeq(l, 1, Len(l) - 1))
             c == l[Len(l)]
         IN IF c = "{" THEN d + 1 ELSE IF c = "}" THEN d - 1 ELSE d

Balanced(l) ==
    /\ BraceDepth(l) = 0
    /\ \A k \in 1..Len(l) : BraceDepth(SubSeq(l, 1, k)) >= 0

\* The line's first bytes would make a directive prefix of an added `{`.
StartsDirective(l) ==
    \/ Len(l) >= 1 /\ l[1] \in {"F", "S"}
    \/ Len(l) >= 2 /\ SubSeq(l, 1, 2) \in {<<"C", "F">>, <<"C", "B">>, <<"A", "R">>}

Wrap(l) == <<"{">> \o l \o <<"}">>

\* C11: for a line L with balanced braces that does not begin with a directive
\* letter, the scan of `{` + L + `}` returns the same pieces as the scan of L
\* (lines without a backslash or a newline, which would swallow the added `}`).
C11_WrapIsNoOp ==
    (/\ pc = "done"
     /\ Balanced(line) /\ ~StartsDirective(line)
     /\ ~Has(line, "\\") /\ ~Has(line, "\n"))
        => Returned(ScanRun(Wrap(line))) = Returned(Locals)

Inner(l) == SubSeq(l, 2, Len(l) - 1)

\* The line is `{` + T + `}` for a T without braces and backslashes that
\* makes no directive prefix with the leading brace.
BareGroup(l) ==
    /\ Len(l) >= 2 /\ l[1] = "{" /\ l[Len(l)] = "}"
    /\ ~Has(Inner(l), "{") /\ ~Has(Inner(l), "}") /\ ~Has(Inner(l), "\\")
    /\ ~StartsDirective(Inner(l))

\* C12 as stated: for every such T the scan of `{T}` returns a single
\* default-attribute piece whose text is T.
C12_Original ==
    (pc = "done" /\ BareGroup(line)) => OnePlainPiece(Inner(line))

\* C12: for every such T that is not empty and has no newline, the scan of
\* `{T}` returns a single default-attribute piece whose text is T, and the
\* scan made no piece besides the root; for the empty T it returns no piece.
C12_BareGroupStripped ==
    (pc = "done" /\ BareGroup(line) /\ ~Has(line, "\n"))
        => /\ Len(heap) = 1
           /\ IF Inner(line) = <<>> THEN result = <<>>
              ELSE OnePlainPiece(Inner(line))

W12_BareGroupStripped ==
    /\ pc = "done" /\ BareGroup(line) /\ ~Has(line, "\n")
    /\ Len(Inner(line)) >= 2 /\ Has(Inner(line), ",")
    /\ OnePlainPiece(Inner(line))

\* The last step read the token tk unescaped.
Unescaped(tk) ==
    op.name \notin {"init", "return"} /\ op.tok = tk /\ ~prev.escaping

\* The last step made no piece and left the current piece in place.
NoNewPiece ==
    /\ Len(heap) = Len(prev.heap)
    /\ text = prev.text /\ currentText = prev.currentText

\* The last step appended s to the current piece's text and changed no other
\* text.
AppendedText(s) ==
    \A p \in PrevPieces :
        heap[p].Text = IF p = prev.currentText THEN prev.heap[p].Text \o s
                       ELSE prev.heap[p].Text

AttrsKept == \A p \in PrevPieces : NowAttrs(p) = PrevAttrs(p)

LiteralClose ==
    /\ Unescaped(<<"}">>)
    /\ prev.bracketing = 0 /\ prev.heap[prev.currentText].Origin = 0

\* C13: an unescaped `}` read while bracketing is 0 and the current piece has
\* no origin is appended to the current piece's text and creates no piece.
C13_LiteralClose ==
    LiteralClose => NoNewPiece /\ AppendedText(<<"}">>) /\ AttrsKept

W13_LiteralClose ==
    /\ LiteralClose /\ Len(heap) > 1
    /\ heap[currentText].Text = <<"t", "}">>

\* The last step read a directive prefix or a closing brace while escaping.
EscapedPrefix ==
    /\ op.name \notin {"init", "return"} /\ prev.escaping
    /\ op.tok \in Prefixes \ {<<"{">>}

\* C14: an escaped directive prefix or closing brace puts exactly the prefix
\* characters into the current piece's text, creates no piece and changes no
\* attribute of any piece.
C14_EscapedPrefixLiteral ==
    EscapedPrefix => NoNewPiece /\ AppendedText(op.tok) /\ AttrsKept

W14_EscapedPrefixLiteral ==
    /\ EscapedPrefix /\ op.tok = <<"{", "A", "R">>
    /\ Len(heap) > 1 /\ prev.screening
    /\ heap[currentText].Text = <<"{", "A", "R">>

\* C15: after any unescaped `}` is read, whether it closes a directive scope,
\* closes a bare group or is literal text, screening is false.
C15_CloseResetsScreening == Unescaped(<<"}">>) => ~screening

\* The number a token of digits with an optional sign writes, sign dropped.
Magnitude(s) == DecValue(IF Head(s) \in {"-", "+"} THEN Tail(s) ELSE s, 0)

\* The last step was {S with an integer token as its argument.
ScreenOpened == op.name = "S" /\ op.argTok /\ op.argOk

\* C16: for `{S` followed by an integer token: if the token begins with `-`
\* its absolute value is appended to notScreens of the new piece and screens
\* stays as inherited; otherwise its value is appended to screens and
\* notScreens stays as inherited.
C16_ScreenSign ==
    ScreenOpened =>
        LET now == NowAttrs(currentText) IN
        /\ currentText = Len(heap) /\ Len(heap) = Len(prev.heap) + 1
        /\ IF Head(op.arg) = "-"
           THEN /\ now.NotScreens = Append(LeftAttrs.NotScreens, U64(Magnitude(op.arg)))
                /\ now.Screens = LeftAttrs.Screens
           ELSE /\ now.Screens = Append(LeftAttrs.Screens, U64(Magnitude(op.arg)))
                /\ now.NotScreens = LeftAttrs.NotScreens

W16_ScreenSign ==
    /\ ScreenOpened /\ op.arg = <<"-", "2">>
    /\ NowAttrs(currentText).NotScreens = <<U(2)>>
    /\ NowAttrs(currentText).Screens = <<U(1)>>

\* The last step was a `,` read while screening, with a token after it.
ChainStep == op.name = "," /\ op.argTok

\* The written integer as the uint the conversion makes of it.
AsUint(s) ==
    IF Head(s) = "-" THEN Neg64(U64(Magnitude(s))) ELSE U64(Magnitude(s))

C18_BadChainKeepsScreens ==
    (ChainStep /\ ~op.argOk) =>
        /\ AppendedText(op.tok \o op.arg)
        /\ \A p \in PrevPieces :
               /\ NowAttrs(p).Screens = PrevAttrs(p).Screens
               /\ NowAttrs(p).NotScreens = PrevAttrs(p).NotScreens

\* C19: every element of screens and notScreens of a returned piece is a
\* non-negative monitor index of the size of a written number: none is a
\* value wrapped around 2^64 by the conversion to uint.
C19_NoWrappedIndex ==
    pc = "done" =>
        \A i \in 1..Len(result) :
            LET a == NowAttrs(result[i]) IN
            /\ \A k \in 1..Len(a.Screens) : IsSmall(a.Screens[k])
            /\ \A k \in 1..Len(a.NotScreens) : IsSmall(a.NotScreens[k])

\* C20: a piece is frozen once it is no longer the current one: no later
\* step changes its text or any of its attributes.
C20_SupersededFrozen ==
    op.name \notin {"init", "return"} =>
        \A p \in PrevPieces \ {prev.currentText} :
            heap[p].Text = prev.heap[p].Text /\ NowAttrs(p) = PrevAttrs(p)

\* C21: a call of Scan returns the same piece list as every earlier call on
\* the same line, whatever lines were scanned in between.
C21_SameLineSamePieces ==
    pc = "done" =>
        \A i \in 1..Len(calls) :
            calls[i].line = line => calls[i].pieces = Returned(Locals)

W21_SameLineSamePieces ==
    /\ pc = "done" /\ Len(calls) = 2
    /\ calls[1].line = line /\ calls[2].line # line
    /\ Len(result) = 2
    /\ Len(calls[2].pieces) > 0

\* The length of the line up to its first newline.
EndOfScan == Len(LineBody(line))

\* C22: Scan terminates on every line: every turn of the loop consumes at
\* least one byte and never goes back, the scan ends having read up to the
\* first newline or the end of the line, and it does end.
C22_Terminates ==
    /\ [](op.name \notin {"init", "return"} => prev.pos < pos /\ pos <= EndOfScan)
    /\ [](pc # "scan" => pos = EndOfScan)
    /\ <>(pc # "scan")

W22_Terminates ==
    /\ pc = "done" /\ Has(line, "\n")
    /\ 0 < pos /\ pos < Len(line)
    /\ Len(result) = 1

\* What is left of the line from byte k on: the data Tokenize is called with
\* when k bytes have been consumed.
Rest(k) == SubSeq(line, k + 1, Len(line))

\* The inputs the Tokenize properties range over: every non-empty rest of the
\* line.  The scanner calls Tokenize with Rest(pos).
Rests == {Rest(k) : k \in 0..(Len(line) - 1)}

\* C23: for every non-empty input whose first byte is not a newline Tokenize
\* returns no error, an advance of at least 1 and a token that is exactly the
\* first `advance` bytes of the input.
C23_TokenIsPrefix ==
    \A data \in Rests :
        data[1] # "\n" =>
            LET t == Tokenize(data, FALSE) IN
            /\ t.err = "nil" /\ ~t.isNil
            /\ 1 <= t.advance /\ t.advance <= Len(data)
            /\ t.token = SubSeq(data, 1, t.advance)

W23_TokenIsPrefix ==
    /\ op.name = "text" /\ op.tok = <<"-", "1", "2">>
    /\ Rest(prev.pos) = <<"-", "1", "2", "-", "t">>
    /\ pos = prev.pos + 3

HasPrefix(data, s) == Len(data) >= Len(s) /\ SubSeq(data, 1, Len(s)) = s

\* An optional `-` and the maximal run of contiguous digits after it: the
\* length n of that token.
IsNumericLen(data, n) ==
    /\ 1 <= n /\ n <= Len(data)
    /\ data[1] \in Digits \cup {"-"}
    /\ \A k \in 2..n : data[k] \in Digits
    /\ n < Len(data) => data[n + 1] \notin Digits

\* The priority list of the token rules after the newline rule: the condition
\* of each rule and whether n is the length of the token it gives.
TokenRules(data, n) ==
    << [when |-> Len(data) < 2, gives |-> n = 1],
       [when |-> HasPrefix(data, <<"{", "F">>) \/ HasPrefix(data, <<"{", "S">>),
        gives |-> n = 2],
       [when |-> Len(data) < 3, gives |-> n = 1],
       [when |-> \/ HasPrefix(data, <<"{", "C", "F">>)
                 \/ HasPrefix(data, <<"{", "C", "B">>)
                 \/ HasPrefix(data, <<"{", "A", "R">>),
        gives |-> n = 3],
       [when |-> /\ Len(data) >= 10
                 /\ HasPrefix(data, <<"0", "x">>) \/ HasPrefix(data, <<"0", "X">>)
                 /\ \A k \in 3..10 : k <= Len(data) => data[k] \in HexDigits,
        gives |-> n = 10],
       [when |-> data[1] \in Digits \cup {"-"}, gives |-> IsNumericLen(data, n)],
       [when |-> TRUE, gives |-> n = 1] >>

\* n is the length the first matching rule gives.
FirstRuleGives(data, n) ==
    LET rules == TokenRules(data, n)
        first == CHOOSE i \in 1..Len(rules) :
                     rules[i].when /\ \A j \in 1..(i - 1) : ~rules[j].when
    IN rules[first].gives

\* C24: Tokenize's result is the token of the first matching rule of the
\* priority list: a leading newline stops; otherwise the token is the first
\* n bytes of the input, n being what the first matching rule gives.
C24_FirstRuleWins ==
    \A data \in Rests :
        LET t == Tokenize(data, FALSE) IN
        IF data[1] = "\n" THEN t.err = "EndScan" /\ t.advance = 0
        ELSE /\ t.err = "nil"
             /\ FirstRuleGives(data, t.advance)
             /\ t.token = SubSeq(data, 1, t.advance)

W24_FirstRuleWins ==
    /\ op.name = "text" /\ op.tok = <<"0">>
    /\ Rest(prev.pos) = <<"0", "x", "f", "f", "1", "e", "F", "0", "t", "e", "s", "t">>
    /\ pos = prev.pos + 1

\* C25: when the first byte is a newline Tokenize consumes nothing, returns
\* the nil token and the EndScan error; it returns no other error, and none
\* at all when the first byte is not a newline or the EOF flag is set.
C25_NewlineEndsScan ==
    \A data \in Rests \cup {<<>>} :
        /\ Tokenize(data, TRUE).err = "nil"
        /\ data # <<>> =>
               LET t == Tokenize(data, FALSE) IN
               IF data[1] = "\n"
               THEN t.advance = 0 /\ t.isNil /\ t.token = <<>> /\ t.err = "EndScan"
               ELSE t.err = "nil"

W25_NewlineEndsScan ==
    /\ pc = "done" /\ serr = "EndScan"
    /\ Rest(pos) = <<"\n", "t", "e", "s", "t">>
    /\ result = <<>>

HexChars ==
    <<"0", "1", "2", "3", "4", "5", "6", "7", "8", "9", "a", "b", "c", "d", "e", "f">>
HexCapitals == <<"A", "B", "C", "D", "E", "F">>

HexVal(c) ==
    IF \E i \in 1..6 : HexCapitals[i] = c
    THEN 9 + CHOOSE i \in 1..6 : HexCapitals[i] = c
    ELSE (CHOOSE i \in 1..16 : HexChars[i] = c) - 1

\* The byte the two hex digits at i and i + 1 of the literal write.
ByteAt(s, i) == 16 * HexVal(s[i]) + HexVal(s[i + 1])

\* The color 0xAARRGGBB written by a 10-byte literal.
WrittenColor(s) ==
    [nil |-> FALSE, A |-> ByteAt(s, 3), R |-> ByteAt(s, 5),
     G |-> ByteAt(s, 7), B |-> ByteAt(s, 9)]

\* The last step was {CF or {CB with a 10-byte color literal as argument.
ColorOpened(name) ==
    /\ op.name = name /\ op.argTok
    /\ Len(op.arg) = 10 /\ op.arg[1] = "0" /\ op.arg[2] \in {"x", "X"}

\* C26: for `{CF` (`{CB`) followed by a 10-byte color literal 0xAARRGGBB the
\* new piece's foreground (background) has the written alpha, red, green and
\* blue bytes, and the piece's other color is the one of the piece left.
C26_ColorChannels ==
    LET now == NowAttrs(currentText) IN
    /\ ColorOpened("CF") =>
           /\ op.argOk /\ currentText = Len(heap)
           /\ now.Foreground = WrittenColor(op.arg)
           /\ now.Background = LeftAttrs.Background
    /\ ColorOpened("CB") =>
           /\ op.argOk /\ currentText = Len(heap)
           /\ now.Background = WrittenColor(op.arg)
           /\ now.Foreground = LeftAttrs.Foreground

W26_ColorChannels ==
    /\ ColorOpened("CB")
    /\ NowAttrs(currentText).Background = [nil |-> FALSE, A |-> 51, R |-> 170, G |-> 0, B |-> 255]
    /\ NowAttrs(currentText).Foreground = [nil |-> FALSE, A |-> 255, R |-> 0, G |-> 170, B |-> 51]

----------------------------------------------------------------------------
\* The --geometries flag and the bar, checked under SpecBar.

\* C29: Geometries.Set on a value that already holds an entry returns the
\* error "geometries flag already set" and leaves the value as it was,
\* whatever the argument; Set("") on an empty value returns nil and leaves
\* it empty.  (geometries is the value after the last call of Set.)
C29_SetOnlyOnce ==
    lastSet.err # "none" =>
        /\ Len(lastSet.before) > 0 =>
              /\ lastSet.err = "geometries flag already set"
              /\ geometries = lastSet.before
        /\ (Len(lastSet.before) = 0 /\ lastSet.value = <<>>) =>
              /\ lastSet.err = "nil"
              /\ geometries = <<>>

\* Set("") was called on a value holding the default geometry, as in
\* TestGeometriesSet.
W29_SetOnlyOnce ==
    /\ lastSet.err = "geometries flag already set"
    /\ lastSet.value = <<>>
    /\ lastSet.before = <<DefaultGeometry>>

\* The fields of a flag value, read off the places of its commas, and the
\* form <w>x<h>+<x>+<y> of the README: four decimal numbers that fit a
\* uint16, and nothing else.
Commas(v) == {i \in 1..Len(v) : v[i] = ","}
FieldCount(v) == Cardinality(Commas(v)) + 1
NthComma(v, n) ==
    CHOOSE i \in Commas(v) : Cardinality({j \in Commas(v) : j <= i}) = n
Field(v, n) ==
    LET lo == IF n = 1 THEN 0 ELSE NthComma(v, n - 1)
        hi == IF n = FieldCount(v) THEN Len(v) + 1 ELSE NthComma(v, n)
    IN SubSeq(v, lo + 1, hi - 1)

IsNumber16(s) ==
    /\ s # <<>> /\ Len(s) <= 9
    /\ \A i \in 1..Len(s) : s[i] \in Digits
    /\ DecValue(s, 0) < 65536
FieldParts(f) ==
    {p \in (1..Len(f)) \X (1..Len(f)) \X (1..Len(f)) :
        /\ p[1] < p[2] /\ p[2] < p[3]
        /\ f[p[1]] = "x" /\ f[p[2]] = "+" /\ f[p[3]] = "+"
        /\ IsNumber16(SubSeq(f, 1, p[1] - 1))
        /\ IsNumber16(SubSeq(f, p[1] + 1, p[2] - 1))
        /\ IsNumber16(SubSeq(f, p[2] + 1, p[3] - 1))
        /\ IsNumber16(SubSeq(f, p[3] + 1, Len(f)))}
WellFormed(f) == FieldParts(f) # {}
FieldGeometry(f) ==
    LET p == CHOOSE q \in FieldParts(f) : TRUE IN
    MkGeometry(DecValue(SubSeq(f, 1, p[1] - 1), 0),
               DecValue(SubSeq(f, p[1] + 1, p[2] - 1), 0),
               DecValue(SubSeq(f, p[2] + 1, p[3] - 1), 0),
               DecValue(SubSeq(f, p[3] + 1, Len(f)), 0))

\* C30: Geometries.Set with a non-empty string on an empty value returns nil
\* and appends one entry per comma-separated field, in field order: nil for
\* an empty field, the parsed numbers for a well-formed field, the default
\* {0,16,0,0} and a logged diagnostic for a malformed field.
C30_OneEntryPerField ==
    (lastSet.err # "none" /\ lastSet.before = <<>> /\ lastSet.value # <<>>) =>
        LET v == lastSet.value
            malformed(f) == f # <<>> /\ ~WellFormed(f)
        IN
        /\ lastSet.err = "nil"
        /\ Len(geometries) = FieldCount(v)
        /\ \A n \in 1..Len(geometries) :
              geometries[n] =
                  IF Field(v, n) = <<>> THEN NilGeometry
                  ELSE IF WellFormed(Field(v, n)) THEN FieldGeometry(Field(v, n))
                  ELSE DefaultGeometry
        /\ lastSet.logged =
              SelectSeq([n \in 1..FieldCount(v) |-> Field(v, n)], malformed)

\* The geometry the README gives monitor m (0 for the first): its own of the
\* list, the last of the list beyond it, the default without a list; and a
\* window made for monitor m by that geometry, 0 standing for the monitor's
\* own width or height.
ListedGeometry(m) ==
    IF geometries = <<>> THEN DefaultGeometry
    ELSE IF m < Len(geometries) THEN geometries[m + 1]
    ELSE geometries[Len(geometries)]
BarsOf(m) == {k \in 1..Len(Windows) : Windows[k].mon = m}
FollowsGeometry(k, m) ==
    LET g == ListedGeometry(m)
        h == heads[m + 1]
        height == IF g.Height = 0 THEN h.Height ELSE g.Height
    IN /\ Windows[k].X = h.X + g.X
       /\ Windows[k].Width = (IF g.Width = 0 THEN h.Width ELSE g.Width)
       /\ Windows[k].Height = height
       /\ Windows[k].Y = (IF position = "TOP" THEN h.Y + g.Y
                          ELSE h.Y + h.Height - height - g.Y)
BarCreated == barPc \in {"run", "panic"}

\* C28 as stated: monitor i within the list gets a bar iff geometry i is not
\* empty, a monitor beyond the list gets a bar by the last geometry iff that
\* one is not empty, and without geometries every monitor gets the default
\* 0x16+0+0 bar.
C28_Original ==
    BarCreated =>
        \A m \in 0..(Len(heads) - 1) :
            IF ListedGeometry(m).nil THEN BarsOf(m) = {}
            ELSE /\ Cardinality(BarsOf(m)) = 1
                 /\ \A k \in BarsOf(m) : FollowsGeometry(k, m)

\* C28, amended: the same for every monitor whose window xwindow.Generate
\* could make; a monitor for which Generate returns an error gets no bar.
C28_BarPerGeometry ==
    BarCreated =>
        \A m \in 0..(Len(heads) - 1) :
            IF ListedGeometry(m).nil \/ (m + 1) \in genFailed
            THEN BarsOf(m) = {}
            ELSE /\ Cardinality(BarsOf(m)) = 1
                 /\ \A k \in BarsOf(m) : FollowsGeometry(k, m)

\* Three monitors and a list of two: the first one empty, the second one
\* used for the second and the third monitor.
W28_BarPerGeometry ==
    /\ BarCreated
    /\ Len(heads) = 3 /\ Len(geometries) = 2
    /\ geometries[1].nil /\ ~geometries[2].nil
    /\ genFailed = {}
    /\ BarsOf(0) = {} /\ BarsOf(1) = {1} /\ BarsOf(2) = {2}

\* A piece of the last Draw names monitor m (0 for the first), and the piece
\* was painted on the k-th window of b.Windows (0 for the first).
Names(p, m) ==
    /\ p.Screens = <<>> \/ Contains(p.Screens, U64(m))
    /\ ~Contains(p.NotScreens, U64(m))
PaintedOn(p, k) == Contains(p.on, U64(k))

\* C27: a piece is painted on the bar of monitor n iff n is in its screens
\* list, or it has no screens list, and n is not in its notScreens; also
\* when some monitors have an empty geometry and no bar.  (Stated for the
\* bars made without an error of xwindow.Generate, and for a Draw that
\* returned.)
C27_PaintedOnNamed ==
    (barPc = "run" /\ genFailed = {}) =>
        \A i \in 1..Len(painted), k \in 1..Len(Windows) :
            PaintedOn(painted[i], k - 1) <=> Names(painted[i], Windows[k].mon)

----------------------------------------------------------------------------
\* C33: bracketing is never negative, and an unescaped `}` handled while
\* bracketing > 0 only decrements it: no text is added, no piece is made,
\* the current piece and the attributes of every piece stay as they were.
C33_GroupCloseOnlyDecrements ==
    /\ bracketing >= 0
    /\ (Unescaped(<<"}">>) /\ prev.bracketing > 0) =>
          /\ bracketing = prev.bracketing - 1
          /\ NoNewPiece
          /\ AppendedText(<<>>)
          /\ AttrsKept

\* A `}` closed the inner of two bare groups around some text.
W33_GroupCloseOnlyDecrements ==
    /\ Unescaped(<<"}">>)
    /\ prev.bracketing = 2 /\ bracketing = 1
    /\ heap[currentText].Text # <<>>

\* Pieces are allocated in source order, so a piece made later has the
\* greater address.  The place of piece p in a list of pieces.
PlaceIn(lst, p) == CHOOSE i \in 1..Len(lst) : lst[i] = p
IsLeft(p) == heap[p].Align = "LEFT"
InList(lst) == {lst[i] : i \in 1..Len(lst)}

\* The left-aligned pieces of the list stand in the order they were made,
\* and a left-aligned piece made after a left-aligned piece that followed a
\* right-aligned one stands after that right-aligned one.
LeftInSourceOrder(lst) ==
    /\ \A p, q \in InList(lst) :
          (IsLeft(p) /\ IsLeft(q) /\ p < q) => PlaceIn(lst, p) < PlaceIn(lst, q)
    /\ \A p, q \in InList(lst) :
          (/\ ~IsLeft(p) /\ IsLeft(q)
           /\ \E n \in Pieces : IsLeft(n) /\ p < n /\ n < q)
          => PlaceIn(lst, p) < PlaceIn(lst, q)

\* The last step closed a right-aligned scope and made a left-aligned piece;
\* the pieces of that scope are those made since the last left-aligned piece.
ClosedRightScope ==
    /\ op.name = "}scope"
    /\ prev.heap[prev.currentText].Align = "RIGHT"
    /\ IsLeft(currentText)
ScopePieces ==
    {p \in PrevPieces :
        \A q \in PrevPieces : (q >= p) => prev.heap[q].Align = "RIGHT"}

\* C35: left-aligned pieces stand in the list, and in the returned list, in
\* the order they were made, also with right-aligned scopes between them;
\* the left-aligned piece made when a right-aligned scope closes stands
\* before all pieces of that scope, left-aligned pieces made later after them.
C35_LeftInSourceOrder ==
    /\ LeftInSourceOrder(text)
    /\ pc = "done" => LeftInSourceOrder(result)
    /\ ClosedRightScope =>
          \A p \in ScopePieces : PlaceIn(text, currentText) < PlaceIn(text, p)

\* Returned: a left-aligned piece, two right-aligned ones of one scope, the
\* left-aligned piece made at its close and a later left-aligned one.
W35_LeftInSourceOrder ==
    /\ pc = "done"
    /\ \E i, j, k \in 1..Len(result) :
          /\ i < j /\ j < k
          /\ IsLeft(result[i]) /\ ~IsLeft(result[j]) /\ IsLeft(result[k])
          /\ result[j] < result[i]
    /\ \E j, k \in 1..Len(result) :
          /\ j < k
          /\ ~IsLeft(result[j]) /\ IsLeft(result[k])
          /\ result[j] < result[k]

\* What may follow the line terminator in the reader: nothing, text, a
\* directive, a second line.
AfterNewline ==
    { <<>>, <<"t">>, <<"{", "F", "1", "t", "}">>, <<"}">>, <<"1">>,
      <<"\n", "t">> }

\* Two finished calls gave their callers the same: both panicked, or both
\* returned the same pieces.
SameReturn(s1, s2) ==
    /\ s1.pc = s2.pc
    /\ s1.pc = "done" => Returned(s1) = Returned(s2)

\* C32: for every line L without a newline, Scan(L + "\n") returns the
\* pieces of Scan(L), and what follows the first newline is ignored.
C32_NewlineChangesNothing ==
    (pc # "scan" /\ ~Has(line, "\n")) =>
        \A rest \in AfterNewline :
            SameReturn(ScanRun(line \o <<"\n">> \o rest), Locals)

\* The scopes and bare groups open when the call returned, and as many `}`.
OpenAtEnd == Len(scopeStack) + bracketing
Closers(k) == [i \in 1..k |-> "}"]

\* The line ends in a directive prefix, or in a comma, whose argument is
\* missing.
EndsInPrefix(l) ==
    \/ Len(l) >= 1 /\ l[Len(l)] = ","
    \/ Len(l) >= 2 /\ SubSeq(l, Len(l) - 1, Len(l)) \in {<<"{", "F">>, <<"{", "S">>}
    \/ Len(l) >= 3 /\ SubSeq(l, Len(l) - 2, Len(l)) \in
                          {<<"{", "C", "F">>, <<"{", "C", "B">>}

\* C36: if a directive scope or a bare group is still open at the end of the
\* line, appending the missing `}` does not change the returned pieces.
\* (Stated for lines without a newline that do not end in a pending escape
\* or in a directive prefix or comma without its argument, which would take
\* the first added `}` for themselves.)
C36_OpenScopesClosed ==
    (/\ pc = "done"
     /\ OpenAtEnd > 0
     /\ ~Has(line, "\n") /\ ~escaping /\ ~EndsInPrefix(line))
        => SameReturn(ScanRun(line \o Closers(OpenAtEnd)), Locals)

\* C34: the pieces Scan returns depend on the bytes the reader delivers and
\* not on how it splits them across Read calls: a reader that delivers the
\* line in chunks of c bytes gives the pieces of a reader that delivers it
\* at once.
C34_ChunksChangeNothing ==
    pc # "scan" =>
        \A c \in 1..MaxChunk : SameReturn(ChunkRun(c, line), Locals)

\* C37: whatever Scan returned, Draw uses as an index only a window number
\* below the number of bar windows and a font number below the number of
\* fonts.
C37_DrawIndicesInRange ==
    \A i \in 1..Len(painted) :
        /\ IsSmall(painted[i].font) /\ SmallVal(painted[i].font) < Len(Fonts)
        /\ \A k \in 1..Len(painted[i].on) :
              /\ IsSmall(painted[i].on[k])
              /\ SmallVal(painted[i].on[k]) < Len(Windows)

\* Entry i of b.Geometries holds the place and size of window i of b.Windows
\* on its monitor, as uint16.
SameBar(i) ==
    LET w == Windows[i]
        g == Geometries[i]
        h == heads[w.mon + 1]
    IN /\ ~g.nil
       /\ g.Width = w.Width % 65536
       /\ g.Height = w.Height % 65536
       /\ g.X = w.X - h.X
       /\ g.Y = (w.Y - h.Y) % 65536

\* C40: after NewBar and after every re-creation by the ConfigureNotify
\* handler, b.Windows and b.Geometries have the same length and entry i of
\* each describes the same bar.
C40_WindowsAndGeometriesParallel ==
    /\ Len(Windows) = Len(Geometries)
    /\ \A i \in 1..Len(Windows) : SameBar(i)

\* A re-created bar on three monitors, the first skipped for its empty
\* geometry, the second for a failed xwindow.Generate, the third with a
\* window.
W40_WindowsAndGeometriesParallel ==
    /\ barPc = "run" /\ recreated
    /\ Len(heads) = 3
    /\ Len(geometries) >= 1 /\ geometries[1].nil
    /\ genFailed = {2}
    /\ Len(Windows) = 1 /\ Windows[1].mon = 2
    /\ Len(Geometries) = 1

\* C38: while a callback of an X event runs, main waits for pingAfter: it
\* is not in its select and not in Draw; and b.Windows, with b.Geometries
\* beside it, stays as it was from the beginning of a Draw to its end.
C38_NoDrawDuringCallback ==
    /\ xpc \in {"callback", "destroyed"} => mpc = "pinged"
    /\ mpc = "pinged" => drawing = <<>>
    /\ mpc = "draw" =>
          /\ drawing[1].Windows = Windows
          /\ Len(Geometries) = Len(Windows)

\* The monitor-change handler is between destroy and create, pieces wait in
\* the stdin goroutine's send, and a Draw happened before.
W38_NoDrawDuringCallback ==
    /\ xpc = "destroyed" /\ Windows = <<>>
    /\ rpc = "send" /\ msg # <<>>
    /\ painted # <<>>
    /\ mpc = "pinged"

\* C39: once standard input is at its end, the stdin goroutine eventually
\* returns and closes the channel (unless the program ends first).
C39_ReaderCloses ==
    eof ~> (rpc = "closed" \/ mpc = "returned" \/ barPc = "panic")

\* The path and the size of a font spec: what stands before the first colon,
\* and the number between the first colon and the next, 12 without one.
ColonsOf(s) == {i \in 1..Len(s) : s[i] = ":"}
FirstColon(s, from) ==
    IF \E i \in ColonsOf(s) : i >= from
    THEN CHOOSE i \in ColonsOf(s) :
            i >= from /\ \A j \in ColonsOf(s) : j >= from => i <= j
    ELSE Len(s) + 1
PathOf(s) == SubSeq(s, 1, FirstColon(s, 1) - 1)
SizeOf(s) ==
    LET a == FirstColon(s, 1)
        str == SubSeq(s, a + 1, FirstColon(s, a + 1) - 1)
    IN IF str # <<>> /\ \A i \in 1..Len(str) : str[i] \in Digits
       THEN DecValue(str, 0) ELSE 12

\* The fonts of the specs whose creation succeeds, in spec order.
UsableFonts ==
    LET ok == SelectSeq(fontSpecs, LAMBDA s : PathOf(s) \in creatable)
    IN [i \in 1..Len(ok) |-> [Path |-> PathOf(ok[i]), Size |-> SizeOf(ok[i])]]

FallbackFails == fontFound = <<>> \/ fontFound[1] \notin creatable

\* C31: ParseFonts returns an error only when no spec gives a usable font
\* and the fallback fails (findFont, or createFont on the path found);
\* otherwise the error is nil and the fonts are the usable ones in spec
\* order, or, when there is none, the one fallback font with the size of the
\* last spec, 12 when that size is missing or invalid.
C31_ParseFontsContract ==
    parsed # <<>> =>
        LET r == parsed[1] IN
        /\ r.err # "nil" <=> (UsableFonts = <<>> /\ FallbackFails)
        /\ (r.err = "nil" /\ UsableFonts # <<>>) => r.fonts = UsableFonts
        /\ (r.err = "nil" /\ UsableFonts = <<>>) =>
              r.fonts = <<[Path |-> fontFound[1],
                           Size |-> IF fontSpecs = <<>> THEN 12
                                    ELSE SizeOf(fontSpecs[Len(fontSpecs)])]>>

\* Two specs, the first with a size and the second without, neither
\* creatable: the fallback font is returned with size 12.
W31_ParseFontsContract ==
    /\ parsed # <<>>
    /\ Len(fontSpecs) = 2
    /\ SizeOf(fontSpecs[1]) = 9
    /\ ColonsOf(fontSpecs[2]) = {}
    /\ parsed[1].err = "nil"
    /\ Len(parsed[1].fonts) = 1
    /\ parsed[1].fonts[1].Path = fontFound[1]
    /\ parsed[1].fonts[1].Size = 12
    /\ PathOf(fontSpecs[1]) \notin creatable

============================================================================
